---- MODULE Spec2Model ----
(***************************************************************************)
(* The iterative research workflow of arxiv_research_agent:                *)
(*   orchestrations.py  arxiv_research_orchestrator (the loop, one         *)
(*                      iteration per instance, re-entry by                *)
(*                      continue_as_new), paper_research_orchestrator (one *)
(*                      research round), _synthesize_and_return            *)
(*   activities.py      the four model-backed activities                   *)
(*   llm.py             parse_json_response                                *)
(* Python dictionaries are records whose DOMAIN is the set of keys present.*)
(* A value whose Python type varies (a decoded JSON document, the value an *)
(* activity returns) is a tagged record [t |-> type, ...].                 *)
(***************************************************************************)
EXTENDS Integers, Sequences, FiniteSets, TLC

VARIABLES
    input,      \* the input of the running orchestrator instance
    orch,       \* the frame of arxiv_research_orchestrator (locals, position, pending call)
    sub,        \* the frame of paper_research_orchestrator
    calls,      \* every call issued since the workflow started (history)
    hist,       \* the results delivered to the running instance, in order (its event history)
    input0,     \* the input the workflow was started with (history)
    reentries,  \* number of continue_as_new re-entries so far (history)
    mark,       \* Len(calls) when the running instance started (history)
    answers,    \* every result delivered to the loop since the workflow started (history)
    unit,       \* one activity execution taken alone: its input, the response, its outcome
    fetch       \* the fetcher of arxiv_api.py: the clock, _last_request_time, its callers, the remote index

vars == <<input, orch, sub, calls, hist, input0, reentries, mark, answers, unit, fetch>>

----------------------------------------------------------------------------
(* Bounds of the model *)

\* largest max_iterations (and current_iteration) of a start input
MaxIter == 3

\* the last second of the fetcher's clock
MaxTime == 42

\* calls of search_arxiv one caller makes
MaxCalls == 2

----------------------------------------------------------------------------
(* Python values *)

PyNone == [t |-> "none"]
PyBool(b) == [t |-> "bool", b |-> b]
PyStr(s) == [t |-> "str", s |-> s]
PyList(l) == [t |-> "list", l |-> l]
PyDict(d) == [t |-> "dict", d |-> d]

\* bool(v): None, False, "", [] and {} are false
Truthy(v) ==
    CASE v.t = "none" -> FALSE
      [] v.t = "bool" -> v.b
      [] v.t = "str" -> v.s # ""
      [] v.t = "list" -> v.l # <<>>
      [] v.t = "dict" -> DOMAIN v.d # {}

\* {}
EmptyDict == [k \in {} |-> ""]

\* d.get(key, default)
Get(d, key, default) == IF key \in DOMAIN d THEN d[key] ELSE default

\* d[key] = value
Put(d, key, value) == [k \in DOMAIN d \cup {key} |-> IF k = key THEN value ELSE d[k]]

Call(name, inp) == [name |-> name, input |-> inp]
NoCall == [name |-> "none"]
NoResult == [none |-> TRUE]

----------------------------------------------------------------------------
(* llm.py *)

\* A model response: its text (raw), whether json.loads accepts it, and the
\* document it decodes to.
NotJson(raw) == [raw |-> raw, isjson |-> FALSE, val |-> PyNone]
Json(raw, val) == [raw |-> raw, isjson |-> TRUE, val |-> val]

\* parse_json_response: json.loads(response.strip()); ok = FALSE is JSONDecodeError
parse_json_response(response) == [ok |-> response.isjson, val |-> response.val]

\* What an activity execution yields: whether it raised, whether it called the
\* model (call_llm), and the value it returned.
Returned(llm, value) == [raised |-> FALSE, llm |-> llm, value |-> value]
Raised(llm) == [raised |-> TRUE, llm |-> llm, value |-> PyNone]

----------------------------------------------------------------------------
(* activities.py *)

MAX_PAPERS_TO_ANALYZE == 15

Min(a, b) == IF a < b THEN a ELSE b

\* query.strip() over the strings of the model
Strip(s) == IF s = " " THEN "" ELSE s

\* search_arxiv_activity -> search_arxiv(query, max_results=30): the argument
\* check, then the papers the remote index answers with
search_arxiv_activity(query, remote) ==
    IF query = "" \/ Strip(query) = ""
    THEN Raised(FALSE)
    ELSE Returned(FALSE, remote)

\* one element of top_papers
TopPaper(paper) ==
    [arxiv_id |-> Get(paper, "arxiv_id", ""),
     title |-> Get(paper, "title", "No title"),
     authors |-> Get(paper, "authors", <<>>),
     summary |-> Get(paper, "summary", ""),
     published |-> Get(paper, "published", ""),
     primary_category |-> Get(paper, "primary_category", ""),
     categories |-> Get(paper, "categories", <<>>),
     pdf_url |-> Get(paper, "pdf_url", ""),
     abs_url |-> Get(paper, "abs_url", ""),
     comment |-> Get(paper, "comment", ""),
     journal_ref |-> Get(paper, "journal_ref", ""),
     doi |-> Get(paper, "doi", "")]

\* the evaluation substituted when the model's text is not JSON
DefaultEvaluation ==
    [insights |-> <<>>,
     relevance_score |-> 5,
     summary |-> "Failed to parse LLM response",
     key_points |-> <<>>,
     research_gaps |-> <<>>]

\* analyze_papers_activity without the except clause of lines 134-142
analyze_papers_activity_strict(inp, response) ==
    LET query == inp.query
        papers == inp.papers
        top_papers == [i \in 1..Min(Len(papers), MAX_PAPERS_TO_ANALYZE) |-> TopPaper(papers[i])]
        parsed == parse_json_response(response)
    IN  IF ~parsed.ok \/ parsed.val.t # "dict"
        THEN Raised(TRUE)
        ELSE Returned(TRUE, Put(Put(parsed.val.d, "query", query), "top_papers", top_papers))

\* analyze_papers_activity recording every paper of the search (line 58)
analyze_papers_activity_all(inp, response) ==
    LET query == inp.query
        papers == inp.papers
        top_papers == [i \in 1..Len(papers) |-> TopPaper(papers[i])]
        parsed == parse_json_response(response)
        evaluation_dict == IF parsed.ok THEN parsed.val ELSE PyDict(DefaultEvaluation)
    IN  IF evaluation_dict.t # "dict"
        THEN Raised(TRUE)
        ELSE Returned(TRUE, Put(Put(evaluation_dict.d, "query", query), "top_papers", top_papers))

analyze_papers_activity(inp, response) ==
    LET query == inp.query
        papers == inp.papers
        top_papers == [i \in 1..Min(Len(papers), MAX_PAPERS_TO_ANALYZE) |-> TopPaper(papers[i])]
        parsed == parse_json_response(response)
        evaluation_dict == IF parsed.ok THEN parsed.val ELSE PyDict(DefaultEvaluation)
    IN  IF evaluation_dict.t # "dict"
        THEN Raised(TRUE)   \* evaluation_dict["query"] = ... on a list, str or None: TypeError
        ELSE Returned(TRUE, Put(Put(evaluation_dict.d, "query", query), "top_papers", top_papers))

\* identify_research_gaps_activity taking the last suggested query (line 213)
identify_research_gaps_activity_last(inp, response) ==
    LET parsed == parse_json_response(response)
        queries == IF parsed.ok THEN parsed.val ELSE PyList(<<>>)
    IN  Returned(TRUE, IF queries.t = "list" /\ Truthy(queries)
                       THEN PyStr(queries.l[Len(queries.l)])
                       ELSE PyNone)

identify_research_gaps_activity(inp, response) ==
    LET parsed == parse_json_response(response)
        queries == IF parsed.ok THEN parsed.val ELSE PyList(<<>>)
    IN  Returned(TRUE, IF queries.t = "list" /\ Truthy(queries)
                       THEN PyStr(queries.l[1])
                       ELSE PyNone)

\* decide_continuation_activity without the iteration cap check of line 233
decide_continuation_activity_nocap(inp, response) ==
    LET parsed == parse_json_response(response)
        json_response == IF parsed.ok THEN parsed.val ELSE PyDict(EmptyDict)
    IN  IF json_response.t # "dict"
        THEN Raised(TRUE)
        ELSE Returned(TRUE, Get(json_response.d, "should_continue", PyBool(FALSE)))

\* decide_continuation_activity with > for >= in line 233
decide_continuation_activity_gt(inp, response) ==
    IF inp.current_iteration > inp.max_iterations
    THEN Returned(FALSE, PyBool(FALSE))
    ELSE decide_continuation_activity_nocap(inp, response)

decide_continuation_activity(inp, response) ==
    IF inp.current_iteration >= inp.max_iterations
    THEN Returned(FALSE, PyBool(FALSE))
    ELSE LET parsed == parse_json_response(response)
             json_response == IF parsed.ok THEN parsed.val ELSE PyDict(EmptyDict)
         IN  IF json_response.t # "dict"
             THEN Raised(TRUE)   \* .get on a list, str or None: AttributeError
             ELSE Returned(TRUE, Get(json_response.d, "should_continue", PyBool(FALSE)))

\* synthesize_research_activity returning the raw text when the object has no report
synthesize_research_activity_raw_default(inp, response) ==
    LET parsed == parse_json_response(response)
    IN  IF ~parsed.ok
        THEN Returned(TRUE, response.raw)
        ELSE IF parsed.val.t # "dict"
             THEN Raised(TRUE)
             ELSE Returned(TRUE, Get(parsed.val.d, "report", response.raw))

synthesize_research_activity(inp, response) ==
    LET parsed == parse_json_response(response)
    IN  IF ~parsed.ok
        THEN Returned(TRUE, response.raw)
        ELSE IF parsed.val.t # "dict"
             THEN Raised(TRUE)   \* .get on a list, str or None: AttributeError
             ELSE Returned(TRUE, Get(parsed.val.d, "report", "No report generated"))

----------------------------------------------------------------------------
(* orchestrations.py: paper_research_orchestrator *)

IdleSub == [pc |-> "Idle", call |-> NoCall, result |-> NoResult]

\* lines 52-62: up to the first yield
paper_research_orchestrator(inp) ==
    [pc |-> "Searching",
     main_topic |-> inp.main_topic,
     query |-> inp.query,
     papers |-> <<>>,
     call |-> Call("search_arxiv_activity", inp.query),
     result |-> NoResult]

\* the Finding of a round whose search found nothing (lines 66-74)
NoPapersFinding(query) ==
    [query |-> query,
     insights |-> <<>>,
     relevance_score |-> 0,
     summary |-> "No papers found for this query",
     key_points |-> <<>>,
     research_gaps |-> <<>>,
     top_papers |-> <<>>]

\* after_search without the empty-result return of lines 64-74
after_search_always(s, papers) ==
    [s EXCEPT !.pc = "Analyzing",
              !.papers = papers,
              !.call = Call("analyze_papers_activity",
                            [topic |-> s.main_topic, query |-> s.query, papers |-> papers])]

\* lines 64-87: resumed with the papers of the search
after_search(s, papers) ==
    IF papers = <<>>
    THEN [s EXCEPT !.pc = "Returned", !.papers = papers, !.call = NoCall,
                   !.result = NoPapersFinding(s.query)]
    ELSE [s EXCEPT !.pc = "Analyzing",
                   !.papers = papers,
                   !.call = Call("analyze_papers_activity",
                                 [topic |-> s.main_topic, query |-> s.query, papers |-> papers])]

\* line 89: resumed with the analysis
after_analyze(s, analysis) ==
    [s EXCEPT !.pc = "Returned", !.call = NoCall, !.result = analysis]

----------------------------------------------------------------------------
(* orchestrations.py: arxiv_research_orchestrator *)

DEFAULT_MAX_ITERATIONS == 3

StartFrame == [pc |-> "Start", call |-> NoCall, result |-> NoResult]

\* _synthesize_and_return up to its yield (lines 110-115)
synthesize_and_return(f, reason) ==
    [f EXCEPT !.pc = "Synthesizing",
              !.reason = reason,
              !.call = Call("synthesize_research_activity",
                            [topic |-> f.topic, all_findings |-> f.all_findings])]

\* after_synthesize asking for the report again when the model gave none
after_synthesize_again(f, final_report) ==
    IF final_report = "No report generated"
    THEN synthesize_and_return(f, f.reason)
    ELSE [f EXCEPT !.pc = "Done",
                   !.call = NoCall,
                   !.result = [topic |-> f.topic,
                               iterations |-> f.current_iteration,
                               report |-> final_report,
                               findings_count |-> Len(f.all_findings)]]

\* _synthesize_and_return resumed with the report (lines 116-121)
after_synthesize(f, final_report) ==
    [f EXCEPT !.pc = "Done",
              !.call = NoCall,
              !.result = [topic |-> f.topic,
                          iterations |-> f.current_iteration,
                          report |-> final_report,
                          findings_count |-> Len(f.all_findings)]]

\* the frame of arxiv_research_orchestrator's locals
Locals(topic, max_iterations, current_iteration, all_findings, current_query) ==
    [pc |-> "Start",
     topic |-> topic,
     max_iterations |-> max_iterations,
     current_iteration |-> current_iteration,
     all_findings |-> all_findings,
     current_query |-> current_query,
     reason |-> "",
     call |-> NoCall,
     result |-> NoResult]

\* lines 165-173: the iteration counter incremented, the round called
begin_round(f) ==
    [f EXCEPT !.pc = "RoundInProgress",
              !.current_iteration = f.current_iteration + 1,
              !.call = Call("paper_research_orchestrator",
                            [main_topic |-> f.topic, query |-> f.current_query])]

\* arxiv_research_orchestrator without the cap check of lines 159-163
arxiv_research_orchestrator_nocheck(inp) ==
    begin_round(Locals(inp.topic,
                       Get(inp, "max_iterations", DEFAULT_MAX_ITERATIONS),
                       Get(inp, "current_iteration", 0),
                       Get(inp, "all_findings", <<>>),
                       Get(inp, "current_query", inp.topic)))

\* arxiv_research_orchestrator with > for >= in line 159
arxiv_research_orchestrator_gt(inp) ==
    LET f == Locals(inp.topic,
                    Get(inp, "max_iterations", DEFAULT_MAX_ITERATIONS),
                    Get(inp, "current_iteration", 0),
                    Get(inp, "all_findings", <<>>),
                    Get(inp, "current_query", inp.topic))
    IN  IF f.current_iteration > f.max_iterations
        THEN synthesize_and_return(f, "Max iterations reached, synthesizing research report...")
        ELSE begin_round(f)

\* arxiv_research_orchestrator starting every instance with no findings (line 151)
arxiv_research_orchestrator_reset(inp) ==
    LET f == Locals(inp.topic,
                    Get(inp, "max_iterations", DEFAULT_MAX_ITERATIONS),
                    Get(inp, "current_iteration", 0),
                    <<>>,
                    Get(inp, "current_query", inp.topic))
    IN  IF f.current_iteration >= f.max_iterations
        THEN synthesize_and_return(f, "Max iterations reached, synthesizing research report...")
        ELSE begin_round(f)

\* arxiv_research_orchestrator searching for the topic in every instance (line 152)
arxiv_research_orchestrator_topicquery(inp) ==
    LET f == Locals(inp.topic,
                    Get(inp, "max_iterations", DEFAULT_MAX_ITERATIONS),
                    Get(inp, "current_iteration", 0),
                    Get(inp, "all_findings", <<>>),
                    inp.topic)
    IN  IF f.current_iteration >= f.max_iterations
        THEN synthesize_and_return(f, "Max iterations reached, synthesizing research report...")
        ELSE begin_round(f)

\* lines 147-173: from the entry to the first yield
arxiv_research_orchestrator(inp) ==
    LET topic == inp.topic
        max_iterations == Get(inp, "max_iterations", DEFAULT_MAX_ITERATIONS)
        current_iteration == Get(inp, "current_iteration", 0)
        all_findings == Get(inp, "all_findings", <<>>)
        current_query == Get(inp, "current_query", topic)
        f == Locals(topic, max_iterations, current_iteration, all_findings, current_query)
    IN  IF current_iteration >= max_iterations
        THEN synthesize_and_return(f, "Max iterations reached, synthesizing research report...")
        ELSE begin_round(f)

\* after_round without the append of line 174
after_round_noappend(f, analysis) ==
    [f EXCEPT !.pc = "DecidingContinuation",
              !.call = Call("decide_continuation_activity",
                            [topic |-> f.topic,
                             all_findings |-> f.all_findings,
                             current_iteration |-> f.current_iteration,
                             max_iterations |-> f.max_iterations])]

\* after_round putting the analysis at the head of the list (line 174)
after_round_prepend(f, analysis) ==
    LET all_findings == <<analysis>> \o f.all_findings
    IN  [f EXCEPT !.pc = "DecidingContinuation",
                  !.all_findings = all_findings,
                  !.call = Call("decide_continuation_activity",
                                [topic |-> f.topic,
                                 all_findings |-> all_findings,
                                 current_iteration |-> f.current_iteration,
                                 max_iterations |-> f.max_iterations])]

\* after_round handing the decide step the counter as it was before the round (line 182)
after_round_stale_counter(f, analysis) ==
    LET all_findings == Append(f.all_findings, analysis)
    IN  [f EXCEPT !.pc = "DecidingContinuation",
                  !.all_findings = all_findings,
                  !.call = Call("decide_continuation_activity",
                                [topic |-> f.topic,
                                 all_findings |-> all_findings,
                                 current_iteration |-> f.current_iteration - 1,
                                 max_iterations |-> f.max_iterations])]

\* lines 174-186: resumed with the round's analysis
after_round(f, analysis) ==
    LET all_findings == Append(f.all_findings, analysis)
    IN  [f EXCEPT !.pc = "DecidingContinuation",
                  !.all_findings = all_findings,
                  !.call = Call("decide_continuation_activity",
                                [topic |-> f.topic,
                                 all_findings |-> all_findings,
                                 current_iteration |-> f.current_iteration,
                                 max_iterations |-> f.max_iterations])]

\* after_decide re-entering at once on a decision to continue, with the query it has
after_decide_reenter(f, should_continue) ==
    IF ~Truthy(should_continue)
    THEN synthesize_and_return(f, "Concluding research early based on LLM decision")
    ELSE [f EXCEPT !.pc = "ContinuedAsNew",
                   !.call = Call("continue_as_new",
                                 [topic |-> f.topic,
                                  max_iterations |-> f.max_iterations,
                                  current_iteration |-> f.current_iteration,
                                  all_findings |-> f.all_findings,
                                  current_query |-> f.current_query])]

\* lines 188-203: resumed with the decision
after_decide(f, should_continue) ==
    IF ~Truthy(should_continue)
    THEN synthesize_and_return(f, "Concluding research early based on LLM decision")
    ELSE [f EXCEPT !.pc = "GeneratingNextQuery",
                   !.call = Call("identify_research_gaps_activity",
                                 [topic |-> f.topic,
                                  current_findings |-> f.all_findings,
                                  iteration |-> f.current_iteration])]

\* after_gaps going on with the topic when there is no follow-up query (line 205)
after_gaps_fallback(f, follow_up_query) ==
    [f EXCEPT !.pc = "ContinuedAsNew",
              !.call = Call("continue_as_new",
                            [topic |-> f.topic,
                             max_iterations |-> f.max_iterations,
                             current_iteration |-> f.current_iteration,
                             all_findings |-> f.all_findings,
                             current_query |-> IF Truthy(follow_up_query)
                                               THEN follow_up_query.s
                                               ELSE f.topic])]

\* after_gaps handing over the counter incremented once more (line 216)
after_gaps_increment(f, follow_up_query) ==
    IF ~Truthy(follow_up_query)
    THEN synthesize_and_return(f, "No additional research gaps identified, concluding...")
    ELSE [f EXCEPT !.pc = "ContinuedAsNew",
                   !.call = Call("continue_as_new",
                                 [topic |-> f.topic,
                                  max_iterations |-> f.max_iterations,
                                  current_iteration |-> f.current_iteration + 1,
                                  all_findings |-> f.all_findings,
                                  current_query |-> follow_up_query.s])]

\* lines 205-219: resumed with the follow-up query
after_gaps(f, follow_up_query) ==
    IF ~Truthy(follow_up_query)
    THEN synthesize_and_return(f, "No additional research gaps identified, concluding...")
    ELSE [f EXCEPT !.pc = "ContinuedAsNew",
                   !.call = Call("continue_as_new",
                                 [topic |-> f.topic,
                                  max_iterations |-> f.max_iterations,
                                  current_iteration |-> f.current_iteration,
                                  all_findings |-> f.all_findings,
                                  current_query |-> follow_up_query.s])]

\* the generator resumed at its pending yield with the result r
Resume(f, r) ==
    CASE f.pc = "RoundInProgress" -> after_round(f, r)
      [] f.pc = "DecidingContinuation" -> after_decide(f, r)
      [] f.pc = "GeneratingNextQuery" -> after_gaps(f, r)
      [] f.pc = "Synthesizing" -> after_synthesize(f, r)

\* Failed with the loop catching the failure and reporting on the findings it has
Failed_partial_report(f) ==
    IF "all_findings" \in DOMAIN f /\ f.pc # "Synthesizing"
    THEN synthesize_and_return(f, "Research failed, synthesizing partial report...")
    ELSE [f EXCEPT !.pc = "Failed", !.call = NoCall]

\* a call that still fails when its retry policy is exhausted makes the
\* yield raise; nothing catches it and the instance fails
Failed(f) == [f EXCEPT !.pc = "Failed", !.call = NoCall]

----------------------------------------------------------------------------
(* The inputs the model draws from *)

Topics == {"graph neural networks"}

Paper1 ==
    [arxiv_id |-> "2301.00001v1", title |-> "Paper one", summary |-> "abstract one",
     authors |-> <<"A. Author", "B. Author">>, published |-> "2023-01-01T00:00:00Z",
     updated |-> "2023-01-02T00:00:00Z", categories |-> <<"cs.LG">>,
     primary_category |-> "cs.LG", pdf_url |-> "https://arxiv.org/pdf/2301.00001v1",
     abs_url |-> "https://arxiv.org/abs/2301.00001v1", comment |-> "",
     journal_ref |-> "", doi |-> ""]

Paper2 ==
    [arxiv_id |-> "2301.00002v1", title |-> "Paper two", summary |-> "abstract two",
     authors |-> <<"C. Author">>, published |-> "2023-02-01T00:00:00Z",
     updated |-> "2023-02-01T00:00:00Z", categories |-> <<"cs.AI", "cs.LG">>,
     primary_category |-> "cs.AI", pdf_url |-> "",
     abs_url |-> "https://arxiv.org/abs/2301.00002v1", comment |-> "8 pages",
     journal_ref |-> "", doi |-> ""]

\* what the remote index answers a search with
PaperLists == {<<>>, <<Paper1, Paper2>>}

AnalyzeResponses ==
    {NotJson("I could not analyse these papers"),
     Json("{insights: [i1], relevance_score: 7, ...}",
          PyDict([insights |-> <<"i1">>, relevance_score |-> 7, summary |-> "landscape",
                  key_points |-> <<"k1">>, research_gaps |-> <<"g1">>])),
     Json("[i1]", PyList(<<"i1">>))}

DecideResponses ==
    {NotJson("yes, continue"),
     Json("{should_continue: true}", PyDict([should_continue |-> PyBool(TRUE)])),
     Json("{should_continue: false}", PyDict([should_continue |-> PyBool(FALSE)])),
     Json("{should_continue: yes}", PyDict([should_continue |-> PyStr("yes")])),
     Json("{should_continue: null}", PyDict([should_continue |-> PyNone])),
     Json("{}", PyDict(EmptyDict)),
     Json("[true]", PyList(<<"true">>))}

GapsResponses ==
    {NotJson("try gnn expressivity"),
     Json("[gnn expressivity, graph pooling]", PyList(<<"gnn expressivity", "graph pooling">>)),
     Json("[graph pooling, gnn expressivity]", PyList(<<"graph pooling", "gnn expressivity">>)),
     Json("[]", PyList(<<>>)),
     Json("[<empty>]", PyList(<<"">>)),
     Json("[<blank>]", PyList(<<" ">>)),
     Json("null", PyNone),
     Json("<empty>", PyStr("")),
     Json("single query", PyStr("single query")),
     Json("{}", PyDict(EmptyDict))}

SynthResponses ==
    {NotJson("# Report in plain text"),
     Json("{report: The report}", PyDict([report |-> "The report"])),
     Json("{}", PyDict(EmptyDict)),
     Json("[The report]", PyList(<<"The report">>))}

\* a finding of an earlier run, as a resumed state carries it
PriorFinding == [query |-> "earlier query", summary |-> "earlier iteration"]

\* the inputs a workflow is started with: a fresh start (topic, with or
\* without max_iterations), or a state in the shape continue_as_new hands
\* over, with fewer findings than iterations, as many, or one more
FreshInputs ==
    {[topic |-> t] : t \in Topics}
    \cup {[topic |-> t, max_iterations |-> m] : t \in Topics, m \in 0..MaxIter}

ResumedInputs ==
    UNION {{[topic |-> t, max_iterations |-> m, current_iteration |-> k,
             all_findings |-> [i \in 1..n |-> PriorFinding],
             current_query |-> "follow-up query"] :
                t \in Topics, m \in 0..MaxIter, n \in 0..Min(k + 1, MaxIter)} :
           k \in 0..MaxIter}

StartInputs == FreshInputs \cup ResumedInputs

----------------------------------------------------------------------------
(* The state machine *)

NoUnit == [activity |-> "none"]
NoFetch == [now |-> 0]

Answer(step, iteration, value) == [step |-> step, iteration |-> iteration, value |-> value]

Init ==
    /\ input \in StartInputs
    /\ input0 = input
    /\ orch = StartFrame
    /\ sub = IdleSub
    /\ calls = <<>>
    /\ hist = <<>>
    /\ reentries = 0
    /\ mark = 0
    /\ answers = <<>>
    /\ unit = NoUnit
    /\ fetch = NoFetch

LlmCall(activity) == Call("call_llm", activity)

\* the calls one activity execution adds to the record, then the orchestrator's next call
Issued(r, activity, next) ==
    (IF r.llm THEN <<LlmCall(activity)>> ELSE <<>>)
    \o (IF next = NoCall THEN <<>> ELSE <<next>>)

\* the worker starts the instance: the orchestrator runs to its first yield
StartInstance ==
    /\ orch.pc = "Start"
    /\ orch' = arxiv_research_orchestrator(input)
    /\ calls' = Append(calls, orch'.call)
    /\ UNCHANGED <<input, sub, hist, input0, reentries, mark, answers, unit, fetch>>

\* the sub-orchestration is started and runs to its first yield
StartRound ==
    /\ orch.pc = "RoundInProgress"
    /\ sub.pc = "Idle"
    /\ sub' = paper_research_orchestrator(orch.call.input)
    /\ calls' = Append(calls, sub'.call)
    /\ UNCHANGED <<input, orch, hist, input0, reentries, mark, answers, unit, fetch>>

\* search_arxiv_activity completes
SearchCompletes ==
    /\ sub.pc = "Searching"
    /\ \E remote \in PaperLists :
         LET r == search_arxiv_activity(sub.call.input, remote)
         IN  IF r.raised
             THEN /\ sub' = Failed(sub)
                  /\ orch' = Failed(orch)
                  /\ calls' = calls
             ELSE /\ sub' = after_search(sub, r.value)
                  /\ orch' = orch
                  /\ calls' = calls \o Issued(r, "search_arxiv_activity", sub'.call)
    /\ UNCHANGED <<input, hist, input0, reentries, mark, answers, unit, fetch>>

\* analyze_papers_activity completes
AnalyzeCompletes ==
    /\ sub.pc = "Analyzing"
    /\ \E response \in AnalyzeResponses :
         LET r == analyze_papers_activity(sub.call.input, response)
         IN  IF r.raised
             THEN /\ sub' = Failed(sub)
                  /\ orch' = Failed(orch)
                  /\ calls' = calls \o Issued(r, "analyze_papers_activity", NoCall)
             ELSE /\ sub' = after_analyze(sub, r.value)
                  /\ orch' = orch
                  /\ calls' = calls \o Issued(r, "analyze_papers_activity", sub'.call)
    /\ UNCHANGED <<input, hist, input0, reentries, mark, answers, unit, fetch>>

\* the round's result is delivered to the loop
RoundCompletes ==
    /\ orch.pc = "RoundInProgress"
    /\ sub.pc = "Returned"
    /\ orch' = Resume(orch, sub.result)
    /\ sub' = IdleSub
    /\ hist' = Append(hist, sub.result)
    /\ calls' = Append(calls, orch'.call)
    /\ answers' = Append(answers, Answer("round", orch.current_iteration, sub.result))
    /\ UNCHANGED <<input, input0, reentries, mark, unit, fetch>>

\* decide_continuation_activity completes
DecideCompletes ==
    /\ orch.pc = "DecidingContinuation"
    /\ \E response \in DecideResponses :
         LET r == decide_continuation_activity(orch.call.input, response)
         IN  IF r.raised
             THEN /\ orch' = Failed(orch)
                  /\ hist' = hist
                  /\ answers' = answers
                  /\ calls' = calls \o Issued(r, "decide_continuation_activity", NoCall)
             ELSE /\ orch' = Resume(orch, r.value)
                  /\ hist' = Append(hist, r.value)
                  /\ answers' = Append(answers, Answer("decide", orch.current_iteration, r.value))
                  /\ calls' = calls \o Issued(r, "decide_continuation_activity", orch'.call)
    /\ UNCHANGED <<input, sub, input0, reentries, mark, unit, fetch>>

\* identify_research_gaps_activity completes
GapsCompletes ==
    /\ orch.pc = "GeneratingNextQuery"
    /\ \E response \in GapsResponses :
         LET r == identify_research_gaps_activity(orch.call.input, response)
         IN  /\ orch' = Resume(orch, r.value)
             /\ hist' = Append(hist, r.value)
             /\ answers' = Append(answers, Answer("gaps", orch.current_iteration, r.value))
             /\ calls' = calls \o Issued(r, "identify_research_gaps_activity", orch'.call)
    /\ UNCHANGED <<input, sub, input0, reentries, mark, unit, fetch>>

\* synthesize_research_activity completes
SynthesizeCompletes ==
    /\ orch.pc = "Synthesizing"
    /\ \E response \in SynthResponses :
         LET r == synthesize_research_activity(orch.call.input, response)
         IN  IF r.raised
             THEN /\ orch' = Failed(orch)
                  /\ hist' = hist
                  /\ answers' = answers
                  /\ calls' = calls \o Issued(r, "synthesize_research_activity", NoCall)
             ELSE /\ orch' = Resume(orch, r.value)
                  /\ hist' = Append(hist, r.value)
                  /\ answers' = Append(answers, Answer("synthesize", orch.current_iteration, r.value))
                  /\ calls' = calls \o Issued(r, "synthesize_research_activity", NoCall)
    /\ UNCHANGED <<input, sub, input0, reentries, mark, unit, fetch>>

\* the remote index cannot be reached (ArxivAPIError), every attempt of the retry policy
SearchFails ==
    /\ sub.pc = "Searching"
    /\ sub' = Failed(sub)
    /\ orch' = Failed(orch)
    /\ UNCHANGED <<input, calls, hist, input0, reentries, mark, answers, unit, fetch>>

\* call_llm raises, every attempt of the retry policy
LlmFails ==
    /\ \/ /\ sub.pc = "Analyzing"
          /\ sub' = Failed(sub)
          /\ calls' = Append(calls, LlmCall(sub.call.name))
       \/ /\ \/ orch.pc \in {"GeneratingNextQuery", "Synthesizing"}
             \/ /\ orch.pc = "DecidingContinuation"
                /\ orch.current_iteration < orch.max_iterations
          /\ sub' = sub
          /\ calls' = Append(calls, LlmCall(orch.call.name))
    /\ orch' = Failed(orch)
    /\ UNCHANGED <<input, hist, input0, reentries, mark, answers, unit, fetch>>

\* continue_as_new: the runtime retires the run and starts the orchestrator
\* again on the state it was handed, with an empty history
Reenter ==
    /\ orch.pc = "ContinuedAsNew"
    /\ input' = orch.call.input
    /\ orch' = StartFrame
    /\ hist' = <<>>
    /\ reentries' = reentries + 1
    /\ mark' = Len(calls)
    /\ UNCHANGED <<sub, calls, input0, answers, unit, fetch>>

Next ==
    \/ StartInstance
    \/ StartRound
    \/ SearchCompletes
    \/ AnalyzeCompletes
    \/ RoundCompletes
    \/ DecideCompletes
    \/ GapsCompletes
    \/ SynthesizeCompletes
    \/ SearchFails
    \/ LlmFails
    \/ Reenter

Spec == Init /\ [][Next]_vars

\* every call the workflow waits on returns in the end or finally fails, and
\* the worker goes on running the orchestrator: no step that can be taken
\* is put off for ever
LiveSpec == Spec /\ WF_vars(Next)

----------------------------------------------------------------------------
(* One activity execution taken alone: the worker runs the activity on an   *)
(* input, whatever orchestration scheduled it.                              *)

FindingLists ==
    {[i \in 1..n |-> PriorFinding] : n \in 0..MaxIter}
    \cup {<<NoPapersFinding("gnn expressivity")>>}

DecideUnits ==
    {[activity |-> "decide_continuation_activity",
      input |-> [topic |-> t, all_findings |-> fs, current_iteration |-> k, max_iterations |-> m],
      response |-> response,
      done |-> FALSE,
      outcome |-> Raised(FALSE)] :
        t \in Topics, fs \in FindingLists, k \in 0..(MaxIter + 1), m \in 0..MaxIter,
        response \in DecideResponses}

UnitInit ==
    /\ unit \in DecideUnits
    /\ input = [topic |-> "graph neural networks"]
    /\ input0 = input
    /\ orch = StartFrame
    /\ sub = IdleSub
    /\ calls = <<>>
    /\ hist = <<>>
    /\ reentries = 0
    /\ mark = 0
    /\ answers = <<>>
    /\ fetch = NoFetch

\* the worker executes decide_continuation_activity
ExecuteDecide ==
    /\ unit.activity = "decide_continuation_activity"
    /\ ~unit.done
    /\ unit' = [unit EXCEPT !.done = TRUE,
                            !.outcome = decide_continuation_activity(unit.input, unit.response)]
    /\ UNCHANGED <<input, orch, sub, calls, hist, input0, reentries, mark, answers, fetch>>

UnitNext ==
    \/ ExecuteDecide

ActivitySpec == UnitInit /\ [][UnitNext]_vars

----------------------------------------------------------------------------
(* arxiv_api.py: the fetcher. Time is in whole seconds. *)

RATE_LIMIT_DELAY == 3
MAX_RETRIES == 3
RETRY_BACKOFF_BASE == 5

\* what client.get comes back with: a response, or an exception of httpx
Response(status, body) == [status |-> status, body |-> body, exc |-> ""]
TransportFailure(exc) == [status |-> 0, body |-> "", exc |-> exc]
NoResponse == Response(0, "")

\* the exceptions search_arxiv lets out
NoError == [type |-> "none", message |-> "", status |-> 0]
ValueError(message) == [type |-> "ValueError", message |-> message, status |-> 0]
ArxivAPIError(message, status) == [type |-> "ArxivAPIError", message |-> message, status |-> status]

\* how a call of search_arxiv ends
FetchReturned(papers) == [raised |-> FALSE, error |-> NoError, papers |-> papers]
FetchRaised(error) == [raised |-> TRUE, error |-> error, papers |-> <<>>]
NoOutcome == FetchReturned(<<>>)

RECURSIVE Pow2(_)
Pow2(n) == IF n = 0 THEN 1 ELSE 2 * Pow2(n - 1)

\* rate_limit_sleep sleeping for the time elapsed, not for the time that remains
rate_limit_sleep_elapsed(now, last) ==
    LET elapsed == now - last
    IN  IF elapsed < RATE_LIMIT_DELAY THEN elapsed ELSE 0

\* lines 48-52: the sleep the rate limit asks for, 0 when none
rate_limit_sleep(now, last) ==
    LET elapsed == now - last
    IN  IF elapsed < RATE_LIMIT_DELAY THEN RATE_LIMIT_DELAY - elapsed ELSE 0

\* lines 57-69: the statuses that are retried, and the sleep before the retry
Retryable(response) == response.exc = "" /\ response.status \in {429, 503}

\* backoff growing by the base at each attempt, not doubling
backoff_linear(attempt) == RETRY_BACKOFF_BASE * (attempt + 1)

backoff(attempt) == RETRY_BACKOFF_BASE * Pow2(attempt)

\* validate testing the query for emptiness without stripping it
validate_unstripped(args) ==
    IF ~(1 <= args.max_results /\ args.max_results <= 100)
    THEN ValueError("max_results must be between 1 and 100")
    ELSE IF args.query = ""
    THEN ValueError("query cannot be empty")
    ELSE IF args.sort_by \notin {"relevance", "lastUpdatedDate", "submittedDate"}
    THEN ValueError("sort_by must be 'relevance', 'lastUpdatedDate', or 'submittedDate'")
    ELSE IF args.sort_order \notin {"ascending", "descending"}
    THEN ValueError("sort_order must be 'ascending' or 'descending'")
    ELSE NoError

\* lines 212-222: the argument checks of search_arxiv, in their order
validate(args) ==
    IF ~(1 <= args.max_results /\ args.max_results <= 100)
    THEN ValueError("max_results must be between 1 and 100")
    ELSE IF args.query = "" \/ Strip(args.query) = ""
    THEN ValueError("query cannot be empty")
    ELSE IF args.sort_by \notin {"relevance", "lastUpdatedDate", "submittedDate"}
    THEN ValueError("sort_by must be 'relevance', 'lastUpdatedDate', or 'submittedDate'")
    ELSE IF args.sort_order \notin {"ascending", "descending"}
    THEN ValueError("sort_order must be 'ascending' or 'descending'")
    ELSE NoError

\* lines 238-243: ET.fromstring and the entries of the feed
FeedEntries(body) ==
    CASE body = "feed" -> <<Paper1, Paper2>>
      [] body = "empty feed" -> <<>>

\* search_arxiv with one handler for every failure
search_arxiv_outcome_catch_all(response) ==
    IF response.exc # "" \/ response.status >= 400 \/ response.body = "not xml"
    THEN FetchRaised(ArxivAPIError("Network error", 0))
    ELSE FetchReturned(FeedEntries(response.body))

\* lines 232-258: what search_arxiv makes of what _rate_limited_request
\* hands it (the response, or the exception client.get raised)
search_arxiv_outcome(response) ==
    IF response.exc = "TimeoutException"
    THEN FetchRaised(ArxivAPIError("Request timed out", 0))
    ELSE IF response.exc # ""
    THEN FetchRaised(ArxivAPIError("Network error", 0))
    ELSE IF response.status >= 400
    THEN FetchRaised(ArxivAPIError("HTTP error", response.status))   \* raise_for_status
    ELSE IF response.body = "not xml"
    THEN FetchRaised(ArxivAPIError("Invalid API response", 0))       \* ET.ParseError
    ELSE FetchReturned(FeedEntries(response.body))

\* lines 73-76: the loop is over without a response returned from inside it
rate_limited_request_exhausted(response) ==
    IF response # NoResponse
    THEN search_arxiv_outcome(response)
    ELSE FetchRaised(ArxivAPIError("Max retries exceeded", 0))

\* the arguments search_arxiv is called with
ValidArgs ==
    [query |-> "gnn expressivity", max_results |-> 30, sort_by |-> "relevance",
     sort_order |-> "descending"]

FetchArgs ==
    {[ValidArgs EXCEPT !.query = q] : q \in {"gnn expressivity", "", " "}}
    \cup {[ValidArgs EXCEPT !.max_results = m] : m \in {0, 1, 100, 101}}
    \cup {[ValidArgs EXCEPT !.sort_by = sb] : sb \in {"submittedDate", "invalid"}}
    \cup {[ValidArgs EXCEPT !.sort_order = so] : so \in {"ascending", "invalid"}}
    \cup {[ValidArgs EXCEPT !.query = "", !.max_results = 0]}

\* what the remote index answers the requests with, in their order; past the
\* end of the script it answers with a feed
Retried == {Response(429, ""), Response(503, "")}

Finals ==
    {Response(200, "feed"), Response(200, "empty feed"), Response(200, "not xml"),
     Response(500, ""), TransportFailure("TimeoutException"), TransportFailure("ConnectError")}

Scripts ==
    {p \o <<Response(200, "feed")>> : p \in UNION {[1..n -> Retried] : n \in 0..MAX_RETRIES}}
    \cup {<<f>> : f \in Finals}
    \cup {<<Response(503, ""), f>> : f \in Finals}

ShortScripts == {<<>>, <<Response(503, "")>>}

\* a thread that calls search_arxiv: its position in search_arxiv and
\* _rate_limited_request, and their locals
IdleCaller ==
    [pc |-> "Idle",
     args |-> ValidArgs,
     attempt |-> 0,
     sleep |-> 0,            \* the duration of the time.sleep under way
     wake |-> 0,             \* when that sleep is over
     stamp |-> 0,            \* time.time() of line 54, before it is stored
     response |-> NoResponse,
     statuses |-> <<>>,      \* the status codes this call has received
     backoffs |-> 0,         \* the backoff sleeps of this call, summed
     calls |-> 0,            \* calls of search_arxiv made so far
     outcome |-> NoOutcome]

Ended(outcome) == IF outcome.raised THEN "Raised" ELSE "Returned"

\* the last two of a sequence
LastTwo(q) == IF Len(q) <= 2 THEN q ELSE SubSeq(q, Len(q) - 1, Len(q))

Caller(w) == fetch.callers[w]

\* search_arxiv is called: the argument checks, up to the loop of _rate_limited_request
CallSearchArxiv ==
    /\ \E w \in DOMAIN fetch.callers, args \in fetch.inputs :
         /\ Caller(w).pc \in {"Idle", "Returned", "Raised"}
         /\ Caller(w).calls < fetch.quota
         /\ LET started == [IdleCaller EXCEPT !.args = args, !.calls = Caller(w).calls + 1]
                error == validate(args)
            IN  fetch' = [fetch EXCEPT !.callers[w] =
                    IF error # NoError
                    THEN [started EXCEPT !.pc = "Raised", !.outcome = FetchRaised(error)]
                    ELSE [started EXCEPT !.pc = "RateLimit"]]
    /\ UNCHANGED <<input, orch, sub, calls, hist, input0, reentries, mark, answers, unit>>

\* lines 48-52: the clock is read and the sleep, if any, begins
RateLimitCheck ==
    /\ \E w \in DOMAIN fetch.callers :
         /\ Caller(w).pc = "RateLimit"
         /\ LET sleep_time == rate_limit_sleep(fetch.now, fetch.last)
            IN  fetch' = [fetch EXCEPT !.callers[w] =
                    IF sleep_time > 0
                    THEN [@ EXCEPT !.pc = "Sleeping", !.sleep = sleep_time,
                                   !.wake = fetch.now + sleep_time]
                    ELSE [@ EXCEPT !.pc = "Stamp", !.sleep = 0]]
    /\ UNCHANGED <<input, orch, sub, calls, hist, input0, reentries, mark, answers, unit>>

\* line 52: time.sleep returns, not before its time
RateLimitSleepOver ==
    /\ \E w \in DOMAIN fetch.callers :
         /\ Caller(w).pc = "Sleeping"
         /\ fetch.now >= Caller(w).wake
         /\ fetch' = [fetch EXCEPT !.callers[w].pc = "Stamp"]
    /\ UNCHANGED <<input, orch, sub, calls, hist, input0, reentries, mark, answers, unit>>

\* line 54, right-hand side: time.time()
ReadTime ==
    /\ \E w \in DOMAIN fetch.callers :
         /\ Caller(w).pc = "Stamp"
         /\ fetch' = [fetch EXCEPT !.callers[w].pc = "Send", !.callers[w].stamp = fetch.now]
    /\ UNCHANGED <<input, orch, sub, calls, hist, input0, reentries, mark, answers, unit>>

\* lines 54-55: _last_request_time is stored and the request goes out; on the
\* clock the fetcher reads, the request is issued at the time it stored
SendRequest ==
    /\ \E w \in DOMAIN fetch.callers :
         /\ Caller(w).pc = "Send"
         /\ LET answer == IF fetch.remote = <<>> THEN Response(200, "feed") ELSE Head(fetch.remote)
            IN  fetch' = [fetch EXCEPT !.last = Caller(w).stamp,
                                       !.sent = LastTwo(Append(@, Caller(w).stamp)),
                                       !.remote = IF @ = <<>> THEN @ ELSE Tail(@),
                                       !.callers[w].pc = "Awaiting",
                                       !.callers[w].response = answer]
    /\ UNCHANGED <<input, orch, sub, calls, hist, input0, reentries, mark, answers, unit>>

\* lines 55-71: client.get returns or raises; a 429 or 503 begins the backoff sleep
ResponseArrives ==
    /\ \E w \in DOMAIN fetch.callers :
         /\ Caller(w).pc = "Awaiting"
         /\ LET response == Caller(w).response
                seen == IF response.exc = ""
                        THEN Append(Caller(w).statuses, response.status)
                        ELSE Caller(w).statuses
                outcome == search_arxiv_outcome(response)
            IN  fetch' = [fetch EXCEPT !.callers[w] =
                    IF Retryable(response)
                    THEN [@ EXCEPT !.pc = "Backoff",
                                   !.statuses = seen,
                                   !.sleep = backoff(Caller(w).attempt),
                                   !.wake = fetch.now + backoff(Caller(w).attempt),
                                   !.backoffs = @ + backoff(Caller(w).attempt)]
                    ELSE [@ EXCEPT !.pc = Ended(outcome), !.statuses = seen, !.outcome = outcome]]
    /\ UNCHANGED <<input, orch, sub, calls, hist, input0, reentries, mark, answers, unit>>

\* lines 61-62, 68-69 and 73-76: the backoff sleep returns; the next attempt,
\* or the end of the loop
BackoffOver ==
    /\ \E w \in DOMAIN fetch.callers :
         /\ Caller(w).pc = "Backoff"
         /\ fetch.now >= Caller(w).wake
         /\ LET outcome == rate_limited_request_exhausted(Caller(w).response)
            IN  fetch' = [fetch EXCEPT !.callers[w] =
                    IF @.attempt + 1 < MAX_RETRIES
                    THEN [@ EXCEPT !.pc = "RateLimit", !.attempt = @ + 1]
                    ELSE [@ EXCEPT !.pc = Ended(outcome), !.outcome = outcome]]
    /\ UNCHANGED <<input, orch, sub, calls, hist, input0, reentries, mark, answers, unit>>

\* a second passes: while a sleep has not run out, or within RATE_LIMIT_DELAY
\* of the last request (a longer wait changes nothing: elapsed is past the
\* delay either way); a sleep returns on time or a second late
Tick ==
    /\ fetch.now < MaxTime
    /\ \A w \in DOMAIN fetch.callers :
           Caller(w).pc \in {"Sleeping", "Backoff"} => fetch.now <= Caller(w).wake
    /\ \/ fetch.now - fetch.last <= RATE_LIMIT_DELAY
       \/ \E w \in DOMAIN fetch.callers :
              Caller(w).pc \in {"Sleeping", "Backoff"} /\ fetch.now < Caller(w).wake
    /\ fetch' = [fetch EXCEPT !.now = @ + 1]
    /\ UNCHANGED <<input, orch, sub, calls, hist, input0, reentries, mark, answers, unit>>

\* the module as imported: _last_request_time = 0.0, and a clock that is past
\* RATE_LIMIT_DELAY (time.time() counts from 1970)
Fetcher(threads, quota, inputs, script) ==
    [now |-> RATE_LIMIT_DELAY,
     last |-> 0,
     callers |-> [w \in threads |-> IdleCaller],
     quota |-> quota,        \* the calls each caller makes
     inputs |-> inputs,      \* the arguments they call with
     remote |-> script,
     sent |-> <<>>]       \* the times of the last two requests sent

Elsewhere ==
    /\ input = [topic |-> "graph neural networks"]
    /\ input0 = input
    /\ orch = StartFrame
    /\ sub = IdleSub
    /\ calls = <<>>
    /\ hist = <<>>
    /\ reentries = 0
    /\ mark = 0
    /\ answers = <<>>
    /\ unit = NoUnit

\* one caller, its calls one after another
FetchInit ==
    /\ \E script \in Scripts : fetch = Fetcher({"w1"}, MaxCalls, {ValidArgs}, script)
    /\ Elsewhere

\* one caller, every kind of argument
ArgumentInit ==
    /\ \E script \in ShortScripts : fetch = Fetcher({"w1"}, MaxCalls, FetchArgs, script)
    /\ Elsewhere

\* two worker threads, one call each
RaceInit ==
    /\ \E script \in ShortScripts : fetch = Fetcher({"w1", "w2"}, 1, {ValidArgs}, script)
    /\ Elsewhere

FetchNext ==
    \/ CallSearchArxiv
    \/ RateLimitCheck
    \/ RateLimitSleepOver
    \/ ReadTime
    \/ SendRequest
    \/ ResponseArrives
    \/ BackoffOver
    \/ Tick

FetcherSpec == FetchInit /\ [][FetchNext]_vars

ArgumentSpec == ArgumentInit /\ [][FetchNext]_vars

ConcurrentFetcherSpec == RaceInit /\ [][FetchNext]_vars

----------------------------------------------------------------------------
(* orchestrations.py: search_arxiv_activity as the scheduler runs it under  *)
(* ARXIV_RETRY_POLICY. Time is in whole seconds.                            *)

ARXIV_RETRY_POLICY ==
    [first_retry_interval |-> 5,
     max_number_of_attempts |-> 3,
     backoff_coefficient |-> 2,
     max_retry_interval |-> 30,
     retry_timeout |-> 120]

RECURSIVE Power(_, _)
Power(b, n) == IF n = 0 THEN 1 ELSE b * Power(b, n - 1)

\* retry_granted counting the retries, not the attempts
retry_granted_retries(policy, attempts, elapsed) ==
    /\ attempts <= policy.max_number_of_attempts
    /\ elapsed < policy.retry_timeout

\* the policy on a failed attempt: whether another attempt is granted. It has
\* the number of attempts and the time since the first one to go by; the
\* policy names no kind of error, and none is looked at
retry_granted(policy, attempts, elapsed) ==
    /\ attempts < policy.max_number_of_attempts
    /\ elapsed < policy.retry_timeout

\* the delay before attempt number attempts + 1
next_delay(policy, attempts) ==
    Min(policy.first_retry_interval * Power(policy.backoff_coefficient, attempts - 1),
        policy.max_retry_interval)

\* the queries a round is started with: a topic or follow-up query, an empty
\* one, a blank one
SearchQueries == {"gnn expressivity", "", " "}

\* what the remote index does to an attempt, and how long the attempt takes
AttemptAnswers ==
    {Response(200, "feed"), Response(200, "empty feed"), Response(503, ""),
     TransportFailure("TimeoutException")}

AttemptSeconds == {0, 1, 60}

\* what the remote index answers the requests of one execution with, in
\* their order: up to two 503 answers, then an answer that ends the loop
\* (any answer, for the third request)
AttemptScripts ==
    {<<a>> : a \in {b \in AttemptAnswers : ~Retryable(b)}}
    \cup {<<Response(503, ""), a>> : a \in {b \in AttemptAnswers : ~Retryable(b)}}
    \cup {<<Response(503, ""), Response(503, ""), a>> : a \in AttemptAnswers}

RECURSIVE rate_limited_request(_, _, _)
\* _rate_limited_request from the iteration `attempt` of its loop on
\* (arxiv_api.py lines 46-76): the response it hands back (or the exception
\* client.get raised), the requests it issued and the seconds of backoff it
\* slept (slept counts those before this iteration)
rate_limited_request(script, attempt, slept) ==
    LET response == script[attempt + 1]
    IN  IF Retryable(response)
        THEN IF attempt + 1 < MAX_RETRIES
             THEN rate_limited_request(script, attempt + 1, slept + backoff(attempt))
             ELSE [response |-> response, requests |-> attempt + 1,
                   slept |-> slept + backoff(attempt)]
        ELSE [response |-> response, requests |-> attempt + 1, slept |-> slept]

SearchUnits ==
    {[activity |-> "search_arxiv_activity",
      input |-> query,
      pc |-> "Scheduled",
      attempts |-> 0,         \* executions of the activity so far
      elapsed |-> 0,          \* seconds since the task was first scheduled
      requests |-> <<>>,      \* outbound requests issued by each execution
      delay |-> 0,
      outcome |-> NoOutcome] : query \in SearchQueries}

RetryInit ==
    /\ unit \in SearchUnits
    /\ input = [topic |-> "graph neural networks"]
    /\ input0 = input
    /\ orch = StartFrame
    /\ sub = IdleSub
    /\ calls = <<>>
    /\ hist = <<>>
    /\ reentries = 0
    /\ mark = 0
    /\ answers = <<>>
    /\ fetch = NoFetch

\* the worker executes search_arxiv_activity: search_arxiv(query, max_results=30)
ExecuteSearch ==
    /\ unit.activity = "search_arxiv_activity"
    /\ unit.pc = "Scheduled"
    /\ \E script \in AttemptScripts, seconds \in AttemptSeconds :
         LET error == validate([ValidArgs EXCEPT !.query = unit.input])
             sent == rate_limited_request(script, 0, 0)
             outcome == IF error # NoError
                        THEN FetchRaised(error)
                        ELSE search_arxiv_outcome(sent.response)
             took == IF error # NoError THEN 0 ELSE seconds + sent.slept
         IN  unit' = [unit EXCEPT !.attempts = @ + 1,
                                  !.elapsed = @ + took,
                                  !.requests = Append(@, IF error # NoError THEN 0 ELSE sent.requests),
                                  !.outcome = outcome,
                                  !.pc = IF outcome.raised THEN "AttemptFailed" ELSE "Completed"]
    /\ UNCHANGED <<input, orch, sub, calls, hist, input0, reentries, mark, answers, fetch>>

\* the attempt failed and the policy grants another: a timer is set
ScheduleRetry ==
    /\ unit.activity = "search_arxiv_activity"
    /\ unit.pc = "AttemptFailed"
    /\ retry_granted(ARXIV_RETRY_POLICY, unit.attempts, unit.elapsed)
    /\ unit' = [unit EXCEPT !.pc = "Waiting",
                            !.delay = next_delay(ARXIV_RETRY_POLICY, unit.attempts)]
    /\ UNCHANGED <<input, orch, sub, calls, hist, input0, reentries, mark, answers, fetch>>

\* the timer fires and the activity is scheduled again
RetryTimerFires ==
    /\ unit.activity = "search_arxiv_activity"
    /\ unit.pc = "Waiting"
    /\ unit' = [unit EXCEPT !.pc = "Scheduled", !.elapsed = @ + unit.delay]
    /\ UNCHANGED <<input, orch, sub, calls, hist, input0, reentries, mark, answers, fetch>>

\* the attempt failed and the policy grants no other: the failure surfaces
\* at the yield of line 58
TaskFails ==
    /\ unit.activity = "search_arxiv_activity"
    /\ unit.pc = "AttemptFailed"
    /\ ~retry_granted(ARXIV_RETRY_POLICY, unit.attempts, unit.elapsed)
    /\ unit' = [unit EXCEPT !.pc = "TaskFailed"]
    /\ UNCHANGED <<input, orch, sub, calls, hist, input0, reentries, mark, answers, fetch>>

RetryNext ==
    \/ ExecuteSearch
    \/ ScheduleRetry
    \/ RetryTimerFires
    \/ TaskFails

RetrySpec == RetryInit /\ [][RetryNext]_vars

----------------------------------------------------------------------------
(* client.py and cli.py: the control surface, and one instance as the       *)
(* scheduler's client shows it                                              *)

Max(a, b) == IF a > b THEN a ELSE b

\* AgentStartRequest.validated_max_iterations: max(1, min(10, self.max_iterations))
validated_max_iterations(max_iterations) == Max(1, Min(10, max_iterations))

\* get_orchestration_state and wait_for_orchestration_completion returning None
NoInstance == [runtime_status |-> "NONE"]

\* serialized_output of an instance that has none
NoOutput == NotJson("")

\* a scheduled instance: the orchestrator's name, the front end that
\* scheduled it, and its input
Scheduled(name, via, inp) ==
    [runtime_status |-> "PENDING",
     name |-> name,
     via |-> via,
     serialized_input |-> inp,
     serialized_output |-> NoOutput]

\* what a front end answers: the operation, the state the client library
\* gave it, the HTTP status code and the body
Reply(op, seen, code, body) == [op |-> op, seen |-> seen, code |-> code, body |-> body]
NoReply == Reply("none", NoInstance, 0, [detail |-> ""])
HTTPException(op, seen, status_code, detail) == Reply(op, seen, status_code, [detail |-> detail])

\* lines 148-166 of client.py: the reply of start_agent
start_agent(request) ==
    IF request.topic = "" \/ Strip(request.topic) = ""
    THEN HTTPException("start_agent", NoInstance, 400, "Topic cannot be empty")
    ELSE Reply("start_agent", NoInstance, 200, [ok |-> TRUE])

\* lines 155-162 of client.py: what start_agent schedules
start_agent_schedules(request) ==
    Scheduled("arxiv_research_orchestrator", "client.py",
              [topic |-> Strip(request.topic),
               max_iterations |-> validated_max_iterations(request.max_iterations)])

\* lines 42-54 of cli.py: what start_research schedules
start_research(topic, max_iterations) ==
    Scheduled("agentic_research_orchestrator", "cli.py",
              [topic |-> topic, max_iterations |-> max_iterations])

\* get_agent_status without the test of the runtime status in line 219
get_agent_status_any_status(state) ==
    IF state = NoInstance
    THEN HTTPException("get_agent_status", state, 404, "Agent not found")
    ELSE LET given == state.serialized_output.raw # ""
             decoded == given /\ state.serialized_output.isjson
             output == state.serialized_output.val
         IN  IF decoded /\ output.t # "dict"
             THEN HTTPException("get_agent_status", state, 500, "AttributeError")
             ELSE Reply("get_agent_status", state, 200,
                        [agent_id |-> "instance-123",
                         topic |-> IF decoded /\ Get(output.d, "topic", "") # ""
                                   THEN Get(output.d, "topic", "")
                                   ELSE Get(state.serialized_input, "topic", ""),
                         status |-> state.runtime_status,
                         created_at |-> PyNone,
                         iterations |-> IF decoded THEN Get(output.d, "iterations", 0) ELSE 0,
                         report |-> IF decoded /\ "report" \in DOMAIN output.d
                                    THEN PyStr(output.d.report)
                                    ELSE PyNone])

\* lines 193-249 of client.py: the reply of get_agent_status to the state
\* get_orchestration_state gave
get_agent_status(state) ==
    IF state = NoInstance
    THEN HTTPException("get_agent_status", state, 404, "Agent not found")
    ELSE LET given == state.runtime_status = "COMPLETED" /\ state.serialized_output.raw # ""
             decoded == given /\ state.serialized_output.isjson
             output == state.serialized_output.val
         IN  IF decoded /\ output.t # "dict"
             THEN HTTPException("get_agent_status", state, 500, "AttributeError")   \* line 247
             ELSE Reply("get_agent_status", state, 200,
                        [agent_id |-> "instance-123",
                         topic |-> IF decoded /\ Get(output.d, "topic", "") # ""
                                   THEN Get(output.d, "topic", "")
                                   ELSE Get(state.serialized_input, "topic", ""),
                         status |-> state.runtime_status,
                         created_at |-> PyNone,
                         iterations |-> IF decoded THEN Get(output.d, "iterations", 0) ELSE 0,
                         report |-> IF decoded /\ "report" \in DOMAIN output.d
                                    THEN PyStr(output.d.report)
                                    ELSE PyNone])

\* wait_for_agent without the test for None of lines 270-271
wait_for_agent_no_timeout(state) ==
    IF state = NoInstance \/ state.runtime_status # "COMPLETED"
    THEN HTTPException("wait_for_agent", state, 500, "error")
    ELSE IF state.serialized_output.raw = ""
    THEN HTTPException("wait_for_agent", state, 500, "No output from orchestration")
    ELSE IF ~state.serialized_output.isjson \/ state.serialized_output.val.t # "dict"
    THEN HTTPException("wait_for_agent", state, 500, "error")
    ELSE LET output == state.serialized_output.val.d
         IN  Reply("wait_for_agent", state, 200,
                   [topic |-> Get(output, "topic", ""),
                    iterations |-> Get(output, "iterations", 0),
                    report |-> Get(output, "report", ""),
                    findings_count |-> Get(output, "findings_count", 0)])

\* lines 260-295 of client.py: the reply of wait_for_agent to the state
\* wait_for_orchestration_completion gave (None when the wait timed out)
wait_for_agent(state) ==
    IF state = NoInstance
    THEN HTTPException("wait_for_agent", state, 408, "Timeout waiting for agent completion")
    ELSE IF state.runtime_status = "FAILED"
    THEN HTTPException("wait_for_agent", state, 500, "Agent failed")
    ELSE IF state.runtime_status # "COMPLETED"
    THEN HTTPException("wait_for_agent", state, 500, "Unexpected status")
    ELSE IF state.serialized_output.raw = ""
    THEN HTTPException("wait_for_agent", state, 500, "No output from orchestration")
    ELSE IF ~state.serialized_output.isjson \/ state.serialized_output.val.t # "dict"
    THEN HTTPException("wait_for_agent", state, 500, "error")        \* line 293
    ELSE LET output == state.serialized_output.val.d
         IN  Reply("wait_for_agent", state, 200,
                   [topic |-> Get(output, "topic", ""),
                    iterations |-> Get(output, "iterations", 0),
                    report |-> Get(output, "report", ""),
                    findings_count |-> Get(output, "findings_count", 0)])

\* the requests the front ends are given
RequestTopics == {"graph neural networks", "", " "}
RequestIterations == {-5, 0, 1, DEFAULT_MAX_ITERATIONS, 10, 20}

\* the FinalResults an instance with this input may return
FinalResults(inp) ==
    {after_synthesize(Locals(inp.topic, inp.max_iterations, k,
                             [i \in 1..k |-> PriorFinding], inp.topic), report).result :
        k \in {n \in 0..MaxIter : IF inp.max_iterations <= 0 THEN n = 0
                                   ELSE 1 <= n /\ n <= inp.max_iterations},
        report \in {"The report", "No report generated"}}

Terminal == {"COMPLETED", "FAILED", "TERMINATED"}

ControlInit ==
    /\ unit = [activity |-> "control surface", state |-> NoInstance, reply |-> NoReply]
    /\ input = [topic |-> "graph neural networks"]
    /\ input0 = input
    /\ orch = StartFrame
    /\ sub = IdleSub
    /\ calls = <<>>
    /\ hist = <<>>
    /\ reentries = 0
    /\ mark = 0
    /\ answers = <<>>
    /\ fetch = NoFetch

\* POST /agents
StartAgent ==
    /\ unit.activity = "control surface"
    /\ unit.state = NoInstance
    /\ \E topic \in RequestTopics, max_iterations \in RequestIterations :
         LET request == [topic |-> topic, max_iterations |-> max_iterations]
             reply == start_agent(request)
         IN  unit' = [unit EXCEPT !.reply = reply,
                                  !.state = IF reply.code = 200
                                            THEN start_agent_schedules(request)
                                            ELSE @]
    /\ UNCHANGED <<input, orch, sub, calls, hist, input0, reentries, mark, answers, fetch>>

\* cli research TOPIC -i ITERATIONS
StartResearch ==
    /\ unit.activity = "control surface"
    /\ unit.state = NoInstance
    /\ \E topic \in RequestTopics, max_iterations \in RequestIterations :
         unit' = [unit EXCEPT !.reply = Reply("start_research", NoInstance, 0, [ok |-> TRUE]),
                              !.state = start_research(topic, max_iterations)]
    /\ UNCHANGED <<input, orch, sub, calls, hist, input0, reentries, mark, answers, fetch>>

\* a worker picks the instance up
InstanceStarts ==
    /\ unit.activity = "control surface"
    /\ unit.state.runtime_status = "PENDING"
    /\ unit' = [unit EXCEPT !.state.runtime_status = "RUNNING"]
    /\ UNCHANGED <<input, orch, sub, calls, hist, input0, reentries, mark, answers, fetch>>

\* the orchestrator returns its FinalResult; worker.py registers
\* arxiv_research_orchestrator and no other entry point (line 92)
InstanceCompletes ==
    /\ unit.activity = "control surface"
    /\ unit.state.runtime_status = "RUNNING"
    /\ unit.state.name = "arxiv_research_orchestrator"
    /\ \E result \in FinalResults(unit.state.serialized_input) :
         unit' = [unit EXCEPT !.state.runtime_status = "COMPLETED",
                              !.state.serialized_output = Json("FinalResult", PyDict(result))]
    /\ UNCHANGED <<input, orch, sub, calls, hist, input0, reentries, mark, answers, fetch>>

\* the instance fails
InstanceFails ==
    /\ unit.activity = "control surface"
    /\ unit.state.runtime_status \in {"PENDING", "RUNNING"}
    /\ unit' = [unit EXCEPT !.state.runtime_status = "FAILED"]
    /\ UNCHANGED <<input, orch, sub, calls, hist, input0, reentries, mark, answers, fetch>>

\* the instance is suspended, or resumed, from outside this program
InstanceSuspends ==
    /\ unit.activity = "control surface"
    /\ unit.state.runtime_status \in {"RUNNING", "SUSPENDED"}
    /\ unit' = [unit EXCEPT !.state.runtime_status =
                                IF @ = "RUNNING" THEN "SUSPENDED" ELSE "RUNNING"]
    /\ UNCHANGED <<input, orch, sub, calls, hist, input0, reentries, mark, answers, fetch>>

\* DELETE /agents/{instance_id}: terminate_orchestration(output="Terminated by user")
TerminateAgent ==
    /\ unit.activity = "control surface"
    /\ unit.state # NoInstance
    /\ unit' = [unit EXCEPT
           !.reply = Reply("terminate_agent", unit.state, 200, [ok |-> TRUE]),
           !.state = IF @.runtime_status \in Terminal
                     THEN @
                     ELSE [@ EXCEPT !.runtime_status = "TERMINATED",
                                    !.serialized_output =
                                        Json("\"Terminated by user\"", PyStr("Terminated by user"))]]
    /\ UNCHANGED <<input, orch, sub, calls, hist, input0, reentries, mark, answers, fetch>>

\* GET /agents/{instance_id}
GetAgentStatus ==
    /\ unit.activity = "control surface"
    /\ unit' = [unit EXCEPT !.reply = get_agent_status(unit.state)]
    /\ UNCHANGED <<input, orch, sub, calls, hist, input0, reentries, mark, answers, fetch>>

\* GET /agents/{instance_id}/wait: the wait is over when the instance is in
\* a terminal state, or else when the timeout has run out
WaitForAgent ==
    /\ unit.activity = "control surface"
    /\ LET state == IF unit.state.runtime_status \in Terminal THEN unit.state ELSE NoInstance
       IN  unit' = [unit EXCEPT !.reply = wait_for_agent(state)]
    /\ UNCHANGED <<input, orch, sub, calls, hist, input0, reentries, mark, answers, fetch>>

ControlNext ==
    \/ StartAgent
    \/ StartResearch
    \/ InstanceStarts
    \/ InstanceCompletes
    \/ InstanceFails
    \/ InstanceSuspends
    \/ TerminateAgent
    \/ GetAgentStatus
    \/ WaitForAgent

ControlSpec == ControlInit /\ [][ControlNext]_vars

----------------------------------------------------------------------------
(* The prompt-building activities taken alone: analyze_papers_activity on   *)
(* the papers of one search, synthesize_research_activity on the findings   *)
(* of a workflow.                                                           *)

\* papers one search returns at most, in the model (search_arxiv is called
\* with max_results = 30)
MaxFetched == 17

\* seq[:n]
Take(seq, n) == SubSeq(seq, 1, Min(Len(seq), n))

\* one entry of papers_lines (lines 58-80): the part of the prompt about one
\* paper (the abstract, cut to 500 characters, is left out)
PaperLine(i, paper) ==
    [n |-> i,
     title |-> Get(paper, "title", "No title"),
     arxiv_id |-> Get(paper, "arxiv_id", ""),
     authors |-> Take(Get(paper, "authors", <<>>), 3),
     et_al |-> Len(Get(paper, "authors", <<>>)) > 3,
     categories |-> Take(Get(paper, "categories", <<>>), 3),
     abs_url |-> Get(paper, "abs_url", "")]

\* papers_lines: what the model is shown of the papers (lines 55-80)
papers_lines(papers) ==
    [i \in 1..Min(Len(papers), MAX_PAPERS_TO_ANALYZE) |-> PaperLine(i, papers[i])]

\* the k-th paper of the remote index
FetchedPaper(k) ==
    [arxiv_id |-> "2301." \o ToString(k),
     title |-> "Paper " \o ToString(k),
     summary |-> "abstract",
     authors |-> IF k % 2 = 0 THEN <<"A", "B", "C", "D">> ELSE <<"A">>,
     published |-> "2023-01-01T00:00:00Z",
     updated |-> "2023-01-01T00:00:00Z",
     categories |-> <<"cs.LG">>,
     primary_category |-> "cs.LG",
     pdf_url |-> "",
     abs_url |-> "https://arxiv.org/abs/2301." \o ToString(k),
     comment |-> "", journal_ref |-> "", doi |-> ""]

\* the results of a search: n papers, newest first or oldest first
FetchedLists ==
    {[i \in 1..n |-> FetchedPaper(i)] : n \in 1..MaxFetched}
    \cup {[i \in 1..n |-> FetchedPaper(n + 1 - i)] : n \in 1..MaxFetched}

\* what the extraction call may answer besides AnalyzeResponses: a JSON
\* object whose relevance_score is out of the range the prompt asks for, and
\* one without the field
UnscoredResponses ==
    {Json("{insights: [i1], relevance_score: 11, ...}",
          PyDict([insights |-> <<"i1">>, relevance_score |-> 11, summary |-> "landscape",
                  key_points |-> <<"k1">>, research_gaps |-> <<"g1">>])),
     Json("{insights: [i1], summary: landscape}",
          PyDict([insights |-> <<"i1">>, summary |-> "landscape"]))}

AnalyzeUnits ==
    {[activity |-> "analyze_papers_activity",
      input |-> [topic |-> t, query |-> "gnn expressivity", papers |-> ps],
      response |-> response,
      done |-> FALSE,
      prompt |-> <<>>,
      outcome |-> Raised(FALSE)] :
        t \in Topics, ps \in FetchedLists,
        response \in AnalyzeResponses \cup UnscoredResponses}

\* papers in one Finding's top_papers, in the model
MaxTopPapers == 2

\* one value of paper_citations (lines 326-338; the date, cut to 10
\* characters, is left out), under its key
Citation(arxiv_id, citation_id, paper) ==
    LET authors == Get(paper, "authors", <<>>)
        author_str == IF authors # <<>> THEN authors[1] ELSE "Unknown"
    IN  [arxiv_id |-> arxiv_id,
         id |-> citation_id,
         title |-> Get(paper, "title", "Unknown"),
         authors |-> IF Len(authors) > 1 THEN author_str \o " et al." ELSE author_str,
         abs_url |-> Get(paper, "abs_url", ""),
         pdf_url |-> Get(paper, "pdf_url", ""),
         categories |-> Get(paper, "categories", <<>>)]

\* arxiv_id in paper_citations
Cited(cites, arxiv_id) == \E i \in 1..Len(cites) : cites[i].arxiv_id = arxiv_id

RECURSIVE cite_papers_all(_, _, _)
\* cite_papers without the membership test of line 325
cite_papers_all(papers, i, acc) ==
    IF i > Len(papers)
    THEN acc
    ELSE LET paper == papers[i]
             arxiv_id == Get(paper, "arxiv_id", "")
         IN  IF arxiv_id # ""
             THEN cite_papers_all(papers, i + 1,
                      [cites |-> Append(acc.cites, Citation(arxiv_id, acc.citation_id, paper)),
                       citation_id |-> acc.citation_id + 1])
             ELSE cite_papers_all(papers, i + 1, acc)

RECURSIVE cite_papers(_, _, _)
\* lines 323-339: the loop over one finding's top_papers from paper number i
\* on; acc is paper_citations (its items in insertion order) and citation_id
cite_papers(papers, i, acc) ==
    IF i > Len(papers)
    THEN acc
    ELSE LET paper == papers[i]
             arxiv_id == Get(paper, "arxiv_id", "")
         IN  IF arxiv_id # "" /\ ~Cited(acc.cites, arxiv_id)
             THEN cite_papers(papers, i + 1,
                      [cites |-> Append(acc.cites, Citation(arxiv_id, acc.citation_id, paper)),
                       citation_id |-> acc.citation_id + 1])
             ELSE cite_papers(papers, i + 1, acc)

RECURSIVE collect_citations(_, _, _)
\* lines 313-339: the loop over all_findings from finding number f on
collect_citations(all_findings, f, acc) ==
    IF f > Len(all_findings)
    THEN acc
    ELSE LET finding == all_findings[f]
             top_papers == Get(finding, "top_papers", <<>>)
         IN  collect_citations(all_findings, f + 1,
                 IF top_papers # <<>> THEN cite_papers(top_papers, 1, acc) ELSE acc)

\* paper_citations.values() after the loop (lines 310-344)
paper_citations(all_findings) ==
    collect_citations(all_findings, 1, [cites |-> <<>>, citation_id |-> 1]).cites

\* the papers findings hold: two papers, a later version of the first's
\* record under the same id, a paper whose id is empty
RecordedPapers ==
    {TopPaper(Paper1), TopPaper(Paper2),
     [TopPaper(Paper1) EXCEPT !.title = "Paper one, revised"],
     [TopPaper(Paper2) EXCEPT !.arxiv_id = "", !.title = "Paper without id"]}

\* the findings of a workflow: each with its top_papers, or (as a resumed
\* state may carry it) without the key
RecordedFindings ==
    {PriorFinding}
    \cup {[query |-> "gnn expressivity", summary |-> "landscape", top_papers |-> tp] :
             tp \in UNION {[1..n -> RecordedPapers] : n \in 0..MaxTopPapers}}

SynthesizeUnits ==
    {[activity |-> "synthesize_research_activity",
      input |-> [topic |-> t, all_findings |-> fs],
      response |-> response,
      done |-> FALSE,
      prompt |-> <<>>,
      outcome |-> Raised(FALSE)] :
        t \in Topics, fs \in UNION {[1..n -> RecordedFindings] : n \in 0..2},
        response \in {NotJson("# Report in plain text"),
                      Json("{report: The report}", PyDict([report |-> "The report"]))}}

PromptInit ==
    /\ unit \in AnalyzeUnits \cup SynthesizeUnits
    /\ input = [topic |-> "graph neural networks"]
    /\ input0 = input
    /\ orch = StartFrame
    /\ sub = IdleSub
    /\ calls = <<>>
    /\ hist = <<>>
    /\ reentries = 0
    /\ mark = 0
    /\ answers = <<>>
    /\ fetch = NoFetch

\* the worker executes analyze_papers_activity
ExecuteAnalyze ==
    /\ unit.activity = "analyze_papers_activity"
    /\ ~unit.done
    /\ unit' = [unit EXCEPT !.done = TRUE,
                            !.prompt = papers_lines(unit.input.papers),
                            !.outcome = analyze_papers_activity(unit.input, unit.response)]
    /\ UNCHANGED <<input, orch, sub, calls, hist, input0, reentries, mark, answers, fetch>>

\* the worker executes synthesize_research_activity
ExecuteSynthesize ==
    /\ unit.activity = "synthesize_research_activity"
    /\ ~unit.done
    /\ unit' = [unit EXCEPT !.done = TRUE,
                            !.prompt = paper_citations(unit.input.all_findings),
                            !.outcome = synthesize_research_activity(unit.input, unit.response)]
    /\ UNCHANGED <<input, orch, sub, calls, hist, input0, reentries, mark, answers, fetch>>

PromptNext ==
    \/ ExecuteAnalyze
    \/ ExecuteSynthesize

PromptSpec == PromptInit /\ [][PromptNext]_vars

----------------------------------------------------------------------------

(* arxiv_api.py: _parse_entry, the parser of one entry of the feed          *)

\* links of one entry, in the model
MaxLinks == 3

\* an atom:link element: its attributes ("" for title and type when absent)
Link(rel, type, title, href) == [rel |-> rel, type |-> type, title |-> title, href |-> href]

\* id_elem.text.split("/abs/")[-1] if "/abs/" in id_elem.text else id_elem.text
IdOf(text) ==
    CASE text = "http://arxiv.org/abs/2301.12345v1" -> "2301.12345v1"
      [] OTHER -> text

RECURSIVE parse_links(_, _, _, _)
\* lines 150-160: the loop over the links from link number i on, with
\* pdf_url and abs_url as they stand
parse_links(links, i, pdf_url, abs_url) ==
    IF i > Len(links)
    THEN [pdf_url |-> pdf_url, abs_url |-> abs_url]
    ELSE LET link == links[i]
         IN  IF link.title = "pdf" \/ link.type = "application/pdf"
             THEN parse_links(links, i + 1, link.href, abs_url)
             ELSE IF link.rel = "alternate"
             THEN parse_links(links, i + 1, pdf_url, link.href)
             ELSE parse_links(links, i + 1, pdf_url, abs_url)

\* _parse_entry: the id and the two URLs of the returned dict (lines 107-111,
\* 150-160, 174-188)
parse_entry(entry) ==
    LET arxiv_id == IdOf(entry.id)
        urls == parse_links(entry.links, 1, "", "")
    IN  [arxiv_id |-> arxiv_id,
         pdf_url |-> urls.pdf_url,
         abs_url |-> IF urls.abs_url # "" THEN urls.abs_url
                     ELSE "https://arxiv.org/abs/" \o arxiv_id]

EntryLinks ==
    {Link("alternate", "text/html", "", "http://arxiv.org/abs/2301.12345v1"),
     Link("alternate", "text/html", "", "http://export.arxiv.org/abs/2301.12345v1"),
     Link("related", "application/pdf", "pdf", "http://arxiv.org/pdf/2301.12345v1"),
     Link("alternate", "application/pdf", "", "http://arxiv.org/pdf/2301.12345v1.pdf"),
     Link("related", "text/html", "doi", "http://dx.doi.org/10.1000/1")}

Entries ==
    {[id |-> "http://arxiv.org/abs/2301.12345v1", links |-> ls] :
        ls \in UNION {[1..n -> EntryLinks] : n \in 0..MaxLinks}}

ParseUnits == {[activity |-> "_parse_entry", entry |-> e, done |-> FALSE, paper |-> PyNone] : e \in Entries}

ParserInit ==
    /\ unit \in ParseUnits
    /\ input = [topic |-> "graph neural networks"]
    /\ input0 = input
    /\ orch = StartFrame
    /\ sub = IdleSub
    /\ calls = <<>>
    /\ hist = <<>>
    /\ reentries = 0
    /\ mark = 0
    /\ answers = <<>>
    /\ fetch = NoFetch

\* search_arxiv parses one entry of the feed (line 242)
ParseEntry ==
    /\ unit.activity = "_parse_entry"
    /\ ~unit.done
    /\ unit' = [unit EXCEPT !.done = TRUE, !.paper = parse_entry(unit.entry)]
    /\ UNCHANGED <<input, orch, sub, calls, hist, input0, reentries, mark, answers, fetch>>

ParserNext ==
    \/ ParseEntry

ParserSpec == ParserInit /\ [][ParserNext]_vars

----------------------------------------------------------------------------

(* worker.py: what the worker registers *)

\* lines 84-88: worker.add_activity
RegisteredActivities ==
    {"search_arxiv_activity", "analyze_papers_activity", "identify_research_gaps_activity",
     "decide_continuation_activity", "synthesize_research_activity"}

\* lines 91-92: worker.add_orchestrator
RegisteredOrchestrators == {"paper_research_orchestrator", "arxiv_research_orchestrator"}

----------------------------------------------------------------------------

(* What the claims speak of *)

\* the workflow was started at current_iteration = 0 with no findings
FreshStart ==
    /\ Get(input0, "current_iteration", 0) = 0
    /\ Get(input0, "all_findings", <<>>) = <<>>

\* max_iterations of the workflow
WorkflowMax == Get(input0, "max_iterations", DEFAULT_MAX_ITERATIONS)

\* the running instance's incoming state
IncomingIteration == Get(input, "current_iteration", 0)
IncomingMax == Get(input, "max_iterations", DEFAULT_MAX_ITERATIONS)
IncomingFindings == Get(input, "all_findings", <<>>)

\* the results of one kind delivered to the loop, in order
AnswersOf(step) == SelectSeq(answers, LAMBDA a : a.step = step)

\* the calls with one name among cs
Named(cs, name) == SelectSeq(cs, LAMBDA c : c.name = name)

\* the calls issued since the running instance started
InstanceCalls == SubSeq(calls, mark + 1, Len(calls))

\* the calls the loop itself issues (not those of the round or of an activity)
LoopCallNames ==
    {"paper_research_orchestrator", "decide_continuation_activity",
     "identify_research_gaps_activity", "synthesize_research_activity", "continue_as_new"}

LoopCalls(cs) == SelectSeq(cs, LAMBDA c : c.name \in LoopCallNames)

\* the model was asked by an execution of the activity
LlmCallsOf(cs, activity) == SelectSeq(cs, LAMBDA c : c.name = "call_llm" /\ c.input = activity)

----------------------------------------------------------------------------
(* C1 *)

\* rounds 1..N each returned a Finding, the decision was true after rounds
\* 1..N-1 and false after round N, and a query followed each of rounds 1..N-1
StoppedAtRound(N) ==
    LET R == AnswersOf("round")
        D == AnswersOf("decide")
        G == AnswersOf("gaps")
    IN  /\ N >= 1
        /\ WorkflowMax >= N
        /\ Len(R) >= N
        /\ Len(D) >= N
        /\ Len(G) >= N - 1
        /\ \A i \in 1..(N - 1) : Truthy(D[i].value) /\ Truthy(G[i].value)
        /\ ~Truthy(D[N].value)

\* C1: a workflow started at current_iteration = 0 with no findings, whose
\* rounds all return a Finding, whose decision is true after rounds 1..N-1 and
\* false after round N and whose next-query step gives a query after rounds
\* 1..N-1 (N >= 1, max_iterations >= N), ends with a FinalResult that has
\* findings_count = N and iterations = N.
C1_StopAfterNRounds ==
    (orch.pc = "Done" /\ FreshStart) =>
        \A N \in 1..(MaxIter + 1) :
            StoppedAtRound(N) =>
                /\ orch.result.findings_count = N
                /\ orch.result.iterations = N

C1_Witness ==
    /\ orch.pc = "Done"
    /\ FreshStart
    /\ StoppedAtRound(2)
    /\ WorkflowMax > 2
    /\ orch.result.iterations = 2

----------------------------------------------------------------------------
(* C2 *)

\* C2: an instance that starts with current_iteration >= max_iterations issues
\* synthesize_research_activity as its first and only call (no round, no
\* decide, no next-query, no re-entry), and its FinalResult has iterations =
\* the incoming current_iteration and findings_count = the length of the
\* incoming findings.
C2_StartAtCapOnlySynthesizes ==
    (orch.pc # "Start" /\ IncomingIteration >= IncomingMax) =>
        /\ orch.pc \in {"Synthesizing", "Done", "Failed"}
        /\ LoopCalls(InstanceCalls) =
               <<Call("synthesize_research_activity",
                      [topic |-> input.topic, all_findings |-> IncomingFindings])>>
        /\ Named(InstanceCalls, "search_arxiv_activity") = <<>>
        /\ Named(InstanceCalls, "analyze_papers_activity") = <<>>
        /\ orch.pc = "Done" =>
               /\ orch.result.iterations = IncomingIteration
               /\ orch.result.findings_count = Len(IncomingFindings)

C2_Witness ==
    /\ orch.pc = "Done"
    /\ IncomingIteration = IncomingMax
    /\ IncomingIteration = 2
    /\ Len(IncomingFindings) = 1
    /\ orch.result.findings_count = 1

----------------------------------------------------------------------------
(* C3 *)

\* C3: in a workflow started at current_iteration = 0 with no findings, once
\* the round of an iteration has completed (at the decide step, the next-query
\* step, the re-entry and the synthesis) len(all_findings) = current_iteration;
\* so it is for the state handed to continue_as_new, for the input of the
\* re-entered instance and for the FinalResult.
C3_FindingsCountIsIteration ==
    FreshStart =>
        /\ orch.pc \in {"DecidingContinuation", "GeneratingNextQuery", "ContinuedAsNew",
                        "Synthesizing", "Done"} =>
               Len(orch.all_findings) = orch.current_iteration
        /\ orch.pc = "ContinuedAsNew" =>
               Len(orch.call.input.all_findings) = orch.call.input.current_iteration
        /\ reentries > 0 => Len(input.all_findings) = input.current_iteration
        /\ orch.pc = "Done" => orch.result.findings_count = orch.result.iterations

C3_Witness ==
    /\ FreshStart
    /\ reentries = 1
    /\ orch.pc = "ContinuedAsNew"
    /\ Len(orch.call.input.all_findings) = 2

----------------------------------------------------------------------------
(* C4 *)

\* C4: at every decision point (each call of decide_continuation_activity and
\* of identify_research_gaps_activity by the loop) current_iteration <=
\* max_iterations, whatever state the workflow was started with and however
\* often it has re-entered.
C4_IterationWithinCapAtDecisions ==
    /\ orch.pc \in {"DecidingContinuation", "GeneratingNextQuery"} =>
           orch.current_iteration <= orch.max_iterations
    /\ \A i \in 1..Len(calls) :
           /\ calls[i].name = "decide_continuation_activity" =>
                  calls[i].input.current_iteration <= calls[i].input.max_iterations
           /\ calls[i].name = "identify_research_gaps_activity" =>
                  calls[i].input.iteration <= WorkflowMax

C4_Witness ==
    /\ orch.pc = "DecidingContinuation"
    /\ reentries = 2
    /\ orch.current_iteration = orch.max_iterations
    /\ Len(Named(calls, "identify_research_gaps_activity")) = 2

----------------------------------------------------------------------------
(* C5 *)

\* C5: when a round completes with current_iteration = max_iterations, the
\* model is not asked for a decision, next-query generation is not invoked and
\* there is no re-entry: the loop goes to Synthesizing and the FinalResult has
\* iterations = max_iterations. A workflow started at current_iteration = 0
\* never runs more than max_iterations research rounds.
C5_NoDecisionAtCap ==
    /\ (orch.pc \notin {"Start", "RoundInProgress"}
        /\ Len(Named(InstanceCalls, "paper_research_orchestrator")) = 1
        /\ orch.current_iteration = orch.max_iterations) =>
           /\ orch.pc \in {"DecidingContinuation", "Synthesizing", "Done", "Failed"}
           /\ LlmCallsOf(InstanceCalls, "decide_continuation_activity") = <<>>
           /\ Named(InstanceCalls, "identify_research_gaps_activity") = <<>>
           /\ Named(InstanceCalls, "continue_as_new") = <<>>
           /\ orch.pc = "Done" => orch.result.iterations = orch.max_iterations
    /\ Get(input0, "current_iteration", 0) = 0 =>
           Len(Named(calls, "paper_research_orchestrator")) <= WorkflowMax

C5_Witness ==
    /\ orch.pc = "Done"
    /\ FreshStart
    /\ WorkflowMax = 2
    /\ orch.current_iteration = 2
    /\ Len(Named(calls, "paper_research_orchestrator")) = 2
    /\ Len(Named(calls, "decide_continuation_activity")) = 2
    /\ Len(LlmCallsOf(calls, "decide_continuation_activity")) = 1

----------------------------------------------------------------------------
(* C6 *)

\* C6: decide_continuation_activity called with current_iteration >=
\* max_iterations returns False and does not call the model, for every
\* findings list and whatever the model would have answered.
C6_DecideShortCircuitsAtCap ==
    (/\ unit.activity = "decide_continuation_activity"
     /\ unit.done
     /\ unit.input.current_iteration >= unit.input.max_iterations) =>
        /\ ~unit.outcome.raised
        /\ ~unit.outcome.llm
        /\ unit.outcome.value = PyBool(FALSE)

C6_Witness ==
    /\ unit.activity = "decide_continuation_activity"
    /\ unit.done
    /\ unit.input.current_iteration = unit.input.max_iterations
    /\ unit.input.max_iterations = 2
    /\ Len(unit.input.all_findings) = 2
    /\ unit.response.val = PyDict([should_continue |-> PyBool(TRUE)])
    /\ unit.outcome.value = PyBool(FALSE)

----------------------------------------------------------------------------
(* C7 *)

\* C7: in a research round whose search returns zero papers,
\* analyze_papers_activity is not invoked and the round's Finding is exactly
\* {query, insights: [], relevance_score: 0, summary: "No papers found for
\* this query", key_points: [], research_gaps: [], top_papers: []}.
C7_NoPapersNoAnalysis ==
    (sub.pc \in {"Analyzing", "Returned"} /\ sub.papers = <<>>) =>
        /\ sub.pc = "Returned"
        /\ calls[Len(calls)] = Call("search_arxiv_activity", sub.query)
        /\ sub.result = [query |-> sub.query,
                         insights |-> <<>>,
                         relevance_score |-> 0,
                         summary |-> "No papers found for this query",
                         key_points |-> <<>>,
                         research_gaps |-> <<>>,
                         top_papers |-> <<>>]

C7_Witness ==
    /\ sub.pc = "Returned"
    /\ sub.papers = <<>>
    /\ sub.query = "gnn expressivity"
    /\ sub.result.relevance_score = 0

----------------------------------------------------------------------------
(* C8 *)

\* model answers that hold no query: an empty list, null, an empty string, a
\* list whose first element is the empty string
NoQueryAnswers == {PyList(<<>>), PyNone, PyStr(""), PyList(<<"">>)}

\* (the results delivered to an instance are, in order, the round's Finding,
\* the decision, the follow-up query when the decision was true, the report)
\* C8: when the next-query step yields no query after the round of iteration
\* k (the model answers with an empty list, null or an empty string, so the
\* activity returns None or ""), the loop goes to Synthesizing with exactly
\* the findings accumulated so far (k of them in a workflow started at 0 with
\* none), continue_as_new is not called, and the FinalResult has iterations = k.
C8_NoQuerySynthesizes ==
    /\ orch.pc = "GeneratingNextQuery" =>
           \A response \in GapsResponses :
               (response.isjson /\ response.val \in NoQueryAnswers) =>
                   LET r == identify_research_gaps_activity(orch.call.input, response)
                   IN  ~r.raised /\ ~Truthy(r.value)
    /\ (Len(hist) >= 3 /\ Truthy(hist[2]) /\ ~Truthy(hist[3])) =>
           LET k == IncomingIteration + 1
               found == Append(IncomingFindings, hist[1])
           IN  /\ orch.pc \in {"Synthesizing", "Done", "Failed"}
               /\ orch.current_iteration = k
               /\ orch.all_findings = found
               /\ FreshStart => Len(found) = k
               /\ Named(InstanceCalls, "continue_as_new") = <<>>
               /\ Named(InstanceCalls, "synthesize_research_activity") =
                      <<Call("synthesize_research_activity",
                             [topic |-> input.topic, all_findings |-> found])>>
               /\ orch.pc = "Done" =>
                      /\ orch.result.iterations = k
                      /\ orch.result.findings_count = Len(found)

C8_Witness ==
    /\ orch.pc = "Done"
    /\ reentries = 1
    /\ Len(hist) = 4
    /\ hist[3] = PyStr("")
    /\ orch.result.iterations = 2
    /\ orch.result.iterations < orch.max_iterations

----------------------------------------------------------------------------
(* C9 *)

RECURSIVE ReplayFrom(_, _, _)
\* the orchestrator frame f resumed with results[i], results[i+1], ... in turn
ReplayFrom(f, results, i) ==
    IF i > Len(results) THEN f ELSE ReplayFrom(Resume(f, results[i]), results, i + 1)

\* a second execution of the running instance: the orchestrator run again on
\* the instance's input and given the first n recorded results
Replayed(n) == ReplayFrom(arxiv_research_orchestrator(input), SubSeq(hist, 1, n), 1)

\* the calls the second execution issues, in order
ReplayedCalls == [n \in 1..(Len(hist) + 1) |-> Replayed(n - 1).call]

----------------------------------------------------------------------------
(* C10 *)

\* C10: the state handed to continue_as_new has exactly the fields topic,
\* max_iterations, current_iteration, all_findings and current_query: topic
\* and max_iterations are those of the instance's input, current_iteration is
\* the input's plus one, all_findings is the input's list with the round's
\* Finding appended last, and current_query is the follow-up query chosen.
C10_HandedStateIsWorkflowState ==
    orch.pc = "ContinuedAsNew" =>
        LET handed == orch.call.input
        IN  /\ DOMAIN handed = {"topic", "max_iterations", "current_iteration",
                                "all_findings", "current_query"}
            /\ handed.topic = input.topic
            /\ handed.max_iterations = IncomingMax
            /\ handed.current_iteration = IncomingIteration + 1
            /\ handed.all_findings = Append(IncomingFindings, hist[1])
            /\ Truthy(hist[3])
            /\ handed.current_query = hist[3].s
            /\ calls[Len(calls)] = Call("continue_as_new", handed)

C10_Witness ==
    /\ orch.pc = "ContinuedAsNew"
    /\ reentries = 1
    /\ orch.call.input.current_iteration = 2
    /\ orch.call.input.current_query = "gnn expressivity"
    /\ input.current_query = "graph pooling"
    /\ Len(orch.call.input.all_findings) = 2

----------------------------------------------------------------------------
(* C11 *)

\* C11: Done is the only state in which the loop rests (an instance that has
\* not failed and can take no step is Done), and it is reached only by the
\* iteration cap, a false continuation decision or an absent follow-up query;
\* over all the re-entries of one workflow the loop calls the synthesizer at
\* most once and gets at most one report, hence one FinalResult; and once Done
\* no round, decide, next-query, synthesis or re-entry step can be taken.
C11_DoneIsTerminal ==
    /\ (orch.pc # "Failed" /\ ~ENABLED Next) => orch.pc = "Done"
    /\ orch.pc = "Done" =>
           /\ ~ENABLED Next
           /\ orch.call = NoCall
           /\ \/ /\ orch.reason = "Max iterations reached, synthesizing research report..."
                 /\ IncomingIteration >= IncomingMax
                 /\ Len(hist) = 1
              \/ /\ orch.reason = "Concluding research early based on LLM decision"
                 /\ Len(hist) = 3
                 /\ ~Truthy(hist[2])
              \/ /\ orch.reason = "No additional research gaps identified, concluding..."
                 /\ Len(hist) = 4
                 /\ Truthy(hist[2])
                 /\ ~Truthy(hist[3])
    /\ Len(Named(calls, "synthesize_research_activity")) <= 1
    /\ Len(AnswersOf("synthesize")) <= 1
    /\ Len(AnswersOf("synthesize")) = 1 <=> orch.pc = "Done"

C11_Witness ==
    /\ orch.pc = "Done"
    /\ reentries = 1
    /\ orch.reason = "No additional research gaps identified, concluding..."
    /\ orch.result.report = "No report generated"
    /\ Len(Named(calls, "paper_research_orchestrator")) = 2

----------------------------------------------------------------------------
(* C12 *)

\* the one caller of FetcherSpec
TheCaller == fetch.callers["w1"]

\* C12: with a single caller making its calls one after another, retried
\* attempts included, any two consecutive outbound requests are at least
\* RATE_LIMIT_DELAY (3 s) apart on the clock the fetcher reads.
C12_RequestsSpaced ==
    /\ Len(fetch.sent) = 2 => fetch.sent[2] - fetch.sent[1] >= RATE_LIMIT_DELAY
    /\ TheCaller.pc = "Send" /\ fetch.sent # <<>> =>
           TheCaller.stamp - fetch.sent[Len(fetch.sent)] >= RATE_LIMIT_DELAY

C12_Witness ==
    /\ TheCaller.calls = MaxCalls
    /\ TheCaller.pc = "Awaiting"
    /\ TheCaller.attempt = 0
    /\ TheCaller.sleep = 2
    /\ Len(fetch.sent) = 2
    /\ fetch.sent[2] - fetch.sent[1] = RATE_LIMIT_DELAY

----------------------------------------------------------------------------
(* C13 *)

\* C13: with callers on several threads, the shared timestamp behaves as if
\* synchronized: no two outbound requests are issued less than
\* RATE_LIMIT_DELAY apart, and no update of the timestamp is lost (it is never
\* older than a request already issued).
C13_SynchronizedTimestamp ==
    /\ Len(fetch.sent) = 2 => fetch.sent[2] - fetch.sent[1] >= RATE_LIMIT_DELAY
    /\ \A i \in 1..Len(fetch.sent) : fetch.last >= fetch.sent[i]

----------------------------------------------------------------------------
(* C14 *)

\* a call of search_arxiv is over
Over(c) == c.calls > 0 /\ c.pc \in {"Returned", "Raised"}

\* C14: when the remote index answers a call with 503, 503, 503 and then a
\* success, the call returns the parsed papers after backoff sleeps of at
\* least 5 + 10 + 20 = 35 s in total, and raises nothing.
C14_ThreeUnavailableThenSuccess ==
    (/\ Over(TheCaller)
     /\ TheCaller.calls = 1
     /\ Len(TheCaller.statuses) >= 3
     /\ SubSeq(TheCaller.statuses, 1, 3) = <<503, 503, 503>>
     /\ \/ Len(TheCaller.statuses) = 3 /\ fetch.remote = <<Response(200, "feed")>>
        \/ Len(TheCaller.statuses) > 3 /\ TheCaller.statuses[4] = 200)
    => /\ ~TheCaller.outcome.raised
       /\ TheCaller.outcome.papers = <<Paper1, Paper2>>
       /\ TheCaller.backoffs >= 35

----------------------------------------------------------------------------
(* C16 *)

\* every attempt of the call was answered 429 or 503
RetriesExhausted(c) ==
    /\ Over(c)
    /\ Len(c.statuses) = MAX_RETRIES
    /\ \A i \in 1..Len(c.statuses) : c.statuses[i] \in {429, 503}

\* C16: a call whose every attempt was answered 429 or 503 raises the error
\* kept for exhausted retries (ArxivAPIError "Max retries exceeded") and
\* never returns a list, empty or partial.
C16_ExhaustedRetriesError ==
    RetriesExhausted(TheCaller) =>
        /\ TheCaller.outcome.raised
        /\ TheCaller.outcome.papers = <<>>
        /\ TheCaller.outcome.error = ArxivAPIError("Max retries exceeded", 0)

----------------------------------------------------------------------------
(* C17 *)

\* why a call failed, read off what the remote index did
FailureCause(c) ==
    CASE c.response.exc # "" -> "transport"
      [] RetriesExhausted(c) -> "retries exhausted"
      [] c.response.status = 200 /\ c.response.body = "not xml" -> "malformed"
      [] OTHER -> "other"

\* why a call failed, read off the error it raised
FailureKind(error) ==
    CASE error.type = "ArxivAPIError" /\ error.message \in {"Request timed out", "Network error"}
             -> "transport"
      [] error.type = "ArxivAPIError" /\ error.message = "HTTP error" /\ error.status \in {429, 503}
             -> "retries exhausted"
      [] error.type = "ArxivAPIError" /\ error.message = "Invalid API response"
             -> "malformed"
      [] OTHER -> "other"

\* C17: a transport failure, exhausted retries and a response that does not
\* parse raise errors a caller can tell apart: the error names its cause
\* (by its message and status; the class is ArxivAPIError for all three).
C17_FailuresDistinguishable ==
    Over(TheCaller) =>
        /\ TheCaller.outcome.raised <=> FailureCause(TheCaller) # "other" \/ TheCaller.response.status >= 400
        /\ TheCaller.outcome.raised => FailureKind(TheCaller.outcome.error) = FailureCause(TheCaller)

C17_Witness ==
    /\ TheCaller.pc = "Raised"
    /\ TheCaller.statuses = <<503, 200>>
    /\ TheCaller.outcome.error = ArxivAPIError("Invalid API response", 0)

----------------------------------------------------------------------------
(* C15 *)

----------------------------------------------------------------------------
(* C18 *)

\* the arguments search_arxiv is to reject
InvalidArguments(args) ==
    \/ args.query \in {"", " "}
    \/ args.max_results < 1
    \/ args.max_results > 100
    \/ args.sort_by \notin {"relevance", "lastUpdatedDate", "submittedDate"}
    \/ args.sort_order \notin {"ascending", "descending"}

\* a step in which search_arxiv is called
SearchArxivCalled == fetch'.callers["w1"].calls = TheCaller.calls + 1

\* C18: search_arxiv called with an empty or whitespace-only query,
\* max_results outside 1..100, or a sort_by or sort_order outside its set
\* raises ValueError at once: no request goes out and the shared
\* last-request timestamp is as it was. Any other call goes on to the request.
C18_InvalidArgumentsRejected ==
    [][SearchArxivCalled =>
         IF InvalidArguments(fetch'.callers["w1"].args)
         THEN /\ fetch'.callers["w1"].pc = "Raised"
              /\ fetch'.callers["w1"].outcome.raised
              /\ fetch'.callers["w1"].outcome.error.type = "ValueError"
              /\ fetch'.callers["w1"].statuses = <<>>
              /\ fetch'.last = fetch.last
              /\ fetch'.sent = fetch.sent
              /\ fetch'.remote = fetch.remote
         ELSE fetch'.callers["w1"].pc = "RateLimit"]_vars

C18_Witness ==
    /\ TheCaller.calls = 2
    /\ TheCaller.pc = "Raised"
    /\ TheCaller.args.query = " "
    /\ TheCaller.outcome.error = ValueError("query cannot be empty")
    /\ fetch.last = RATE_LIMIT_DELAY
    /\ fetch.sent = <<RATE_LIMIT_DELAY>>

----------------------------------------------------------------------------
(* C19 *)

\* C19: when search_arxiv rejects its arguments (ValueError) inside a round,
\* the search activity is executed exactly once and the failure surfaces: the
\* retry policy makes no second attempt.
C19_InvalidArgumentNotRetried ==
    (/\ unit.attempts >= 1
     /\ unit.outcome.raised
     /\ unit.outcome.error.type = "ValueError")
    => /\ unit.attempts = 1
       /\ unit.pc \in {"AttemptFailed", "TaskFailed"}

----------------------------------------------------------------------------
(* C20 *)

\* the Finding of a round whose extraction call answered with text that is not JSON
IsDefaultFinding(finding, query, papers) ==
    /\ finding.insights = <<>>
    /\ finding.key_points = <<>>
    /\ finding.research_gaps = <<>>
    /\ finding.relevance_score = 5
    /\ finding.summary = "Failed to parse LLM response"
    /\ finding.query = query
    /\ Len(finding.top_papers) = Len(papers)
    /\ \A i \in 1..Len(papers) :
           /\ finding.top_papers[i].arxiv_id = papers[i].arxiv_id
           /\ finding.top_papers[i].title = papers[i].title
           /\ finding.top_papers[i].summary = papers[i].summary

\* C20: when the extraction call returns text that is not JSON, the analysis
\* raises nothing and the round completes; its Finding has insights = [],
\* key_points = [], research_gaps = [], relevance_score = 5, summary =
\* "Failed to parse LLM response", the round's query and the analyzed papers.
C20_NonJsonAnalysisDefaults ==
    /\ sub.pc = "Analyzing" =>
           \A response \in AnalyzeResponses :
               ~response.isjson =>
                   LET r == analyze_papers_activity(sub.call.input, response)
                   IN  /\ ~r.raised
                       /\ after_analyze(sub, r.value).pc = "Returned"
                       /\ IsDefaultFinding(after_analyze(sub, r.value).result, sub.query, sub.papers)
    /\ sub.pc = "Returned" /\ sub.result.summary = "Failed to parse LLM response" =>
           IsDefaultFinding(sub.result, sub.query, sub.papers)
    /\ sub.pc = "Returned" /\ sub.papers # <<>> =>
           \/ IsDefaultFinding(sub.result, sub.query, sub.papers)
           \/ sub.result.relevance_score = 7

C20_Witness ==
    /\ sub.pc = "Returned"
    /\ reentries = 1
    /\ sub.query = "gnn expressivity"
    /\ sub.papers = <<Paper1, Paper2>>
    /\ IsDefaultFinding(sub.result, "gnn expressivity", <<Paper1, Paper2>>)

----------------------------------------------------------------------------
(* C21 *)

\* a model output that does not parse to what the step expects: text that is
\* not JSON, or JSON of another type (t is "dict" or "list")
Unparseable(response, t) == ~response.isjson \/ response.val.t # t

\* C21: whatever the model answers, text that is not JSON and JSON of the
\* wrong shape included, none of the four model-backed steps raises, and on
\* such an output each returns its default: the default Finding (analyze),
\* false (decide), no query (next query), the raw text (synthesize).
C21_ModelOutputNeverRaises ==
    /\ sub.pc = "Analyzing" =>
           \A response \in AnalyzeResponses :
               LET r == analyze_papers_activity(sub.call.input, response)
               IN  /\ ~r.raised
                   /\ Unparseable(response, "dict") =>
                          IsDefaultFinding(r.value, sub.query, sub.papers)
    /\ orch.pc = "DecidingContinuation" =>
           \A response \in DecideResponses :
               LET r == decide_continuation_activity(orch.call.input, response)
               IN  /\ ~r.raised
                   /\ Unparseable(response, "dict") => r.value = PyBool(FALSE)
    /\ orch.pc = "GeneratingNextQuery" =>
           \A response \in GapsResponses :
               LET r == identify_research_gaps_activity(orch.call.input, response)
               IN  /\ ~r.raised
                   /\ Unparseable(response, "list") => r.value = PyNone
    /\ orch.pc = "Synthesizing" =>
           \A response \in SynthResponses :
               LET r == synthesize_research_activity(orch.call.input, response)
               IN  /\ ~r.raised
                   /\ Unparseable(response, "dict") => r.value = response.raw

----------------------------------------------------------------------------
(* C22 *)

\* the synthesizer's output is a JSON object with a report field
HasReport(response) ==
    /\ response.isjson
    /\ response.val.t = "dict"
    /\ "report" \in DOMAIN response.val.d

\* the reports the terminal step may give: a parsed report field, or the raw
\* text of an output without one
ParsedOrRawReports ==
    {response.val.d.report : response \in {o \in SynthResponses : HasReport(o)}}
    \cup {response.raw : response \in {o \in SynthResponses : ~HasReport(o)}}

\* C22: whenever no report field can be had from the synthesizer's output,
\* the synthesis step returns the raw model text as the report and does not
\* fail; the FinalResult's report is the parsed report field or the raw text.
C22_RawTextWhenNoReportField ==
    /\ orch.pc = "Synthesizing" =>
           \A response \in SynthResponses :
               LET r == synthesize_research_activity(orch.call.input, response)
               IN  /\ ~r.raised
                   /\ r.value = IF HasReport(response)
                                 THEN response.val.d.report
                                 ELSE response.raw
    /\ orch.pc = "Done" => orch.result.report \in ParsedOrRawReports

----------------------------------------------------------------------------
(* C23 *)

\* C23: when the synthesizer's output parses as a JSON object,
\* synthesize_research_activity returns the value of its "report" key, and
\* the fixed string "No report generated" when the object has no such key.
C23_NoReportGenerated ==
    /\ orch.pc = "Synthesizing" =>
           \A response \in SynthResponses :
               response.isjson /\ response.val.t = "dict" =>
                   LET r == synthesize_research_activity(orch.call.input, response)
                   IN  /\ ~r.raised
                       /\ "report" \in DOMAIN response.val.d => r.value = response.val.d.report
                       /\ "report" \notin DOMAIN response.val.d => r.value = "No report generated"
    /\ orch.pc = "Done" =>
           orch.result.report \in {"The report", "No report generated", "# Report in plain text"}

C23_Witness ==
    /\ orch.pc = "Done"
    /\ orch.result.report = "No report generated"
    /\ FreshStart
    /\ orch.reason = "Concluding research early based on LLM decision"
    /\ orch.result.iterations = 1
    /\ orch.result.findings_count = 1

----------------------------------------------------------------------------
(* C24 *)

\* C24: when a step still fails after its retries (the search, or a model
\* call that raises), the workflow ends as a failed instance: a failed round
\* fails the workflow, nothing runs afterwards, there is no FinalResult, the
\* synthesizer is not invoked after the failure, and no report is made of the
\* findings collected so far.
C24_FailureEndsWithoutReport ==
    /\ sub.pc = "Failed" => orch.pc = "Failed"
    /\ orch.pc = "Failed" =>
           /\ ~ENABLED Next
           /\ orch.call = NoCall
           /\ orch.result = NoResult
           /\ AnswersOf("synthesize") = <<>>
           /\ orch.reason = "" => Named(calls, "synthesize_research_activity") = <<>>
           /\ orch.reason # "" =>
                  /\ Len(Named(calls, "synthesize_research_activity")) = 1
                  /\ calls[Len(calls)].name \in {"synthesize_research_activity", "call_llm"}

C24_Witness ==
    /\ orch.pc = "Failed"
    /\ sub.pc = "Failed"
    /\ FreshStart
    /\ reentries = 1
    /\ Len(orch.all_findings) = 1
    /\ orch.current_iteration = 2
    /\ Len(AnswersOf("round")) = 1

----------------------------------------------------------------------------
(* C25 *)

\* C25: get_agent_status answers for every instance there is, and gives a
\* report, or an iterations count other than 0, only for one whose runtime
\* status is COMPLETED; for a pending, running, failed, terminated or
\* suspended instance the report is null, and no answer carries findings.
C25_ReportOnlyWhenCompleted ==
    unit.reply.op = "get_agent_status" /\ unit.reply.seen # NoInstance =>
        LET seen == unit.reply.seen
            body == unit.reply.body
        IN  /\ unit.reply.code = 200
            /\ DOMAIN body = {"agent_id", "topic", "status", "created_at", "iterations", "report"}
            /\ body.status = seen.runtime_status
            /\ seen.runtime_status # "COMPLETED" =>
                   /\ body.report = PyNone
                   /\ body.iterations = 0
            /\ seen.runtime_status = "COMPLETED" =>
                   /\ body.report = PyStr(seen.serialized_output.val.d.report)
                   /\ body.iterations = seen.serialized_output.val.d.iterations

C25_Witness ==
    /\ unit.reply.op = "get_agent_status"
    /\ unit.reply.seen.runtime_status = "TERMINATED"
    /\ unit.reply.seen.serialized_output.raw # ""
    /\ unit.reply.code = 200
    /\ unit.reply.body.report = PyNone

----------------------------------------------------------------------------
(* C26 *)

\* C26: every workflow a front end schedules has max_iterations >= 1, and
\* one scheduled by the REST start operation has it within 1..10.
C26_MaxIterationsAtLeastOne ==
    unit.state # NoInstance =>
        /\ unit.state.serialized_input.max_iterations >= 1
        /\ unit.state.via = "client.py" => unit.state.serialized_input.max_iterations <= 10

----------------------------------------------------------------------------
(* C27 *)

\* C27: wait_for_agent returns a FinalResult (topic, iterations, report,
\* findings_count) only for an instance that is COMPLETED with an output, and
\* then it is that output; a wait that timed out is answered 408, and a
\* failed, terminated or otherwise not completed instance with an error.
C27_WaitGivesFinalResultOnlyWhenCompleted ==
    unit.reply.op = "wait_for_agent" =>
        LET seen == unit.reply.seen
            body == unit.reply.body
        IN  /\ seen = NoInstance => unit.reply.code = 408
            /\ seen # NoInstance /\ seen.runtime_status # "COMPLETED" => unit.reply.code = 500
            /\ unit.reply.code = 200 <=>
                   /\ seen # NoInstance
                   /\ seen.runtime_status = "COMPLETED"
                   /\ seen.serialized_output.raw # ""
            /\ unit.reply.code = 200 =>
                   /\ DOMAIN body = {"topic", "iterations", "report", "findings_count"}
                   /\ body = seen.serialized_output.val.d
            /\ unit.reply.code # 200 => DOMAIN body = {"detail"}

C27_Witness ==
    /\ unit.reply.op = "wait_for_agent"
    /\ unit.reply.code = 200
    /\ unit.reply.seen.runtime_status = "COMPLETED"
    /\ unit.reply.body.iterations = DEFAULT_MAX_ITERATIONS
    /\ unit.reply.body.findings_count = DEFAULT_MAX_ITERATIONS
    /\ unit.reply.body.report = "The report"

----------------------------------------------------------------------------
(* C29 *)

\* the findings list of the workflow as it stands: the run's all_findings, or
\* the one the run is about to be started with
Findings == IF orch.pc = "Start" THEN IncomingFindings ELSE orch.all_findings

IsPrefix(p, q) == Len(p) <= Len(q) /\ SubSeq(q, 1, Len(p)) = p

\* the Findings of the rounds completed so far, in the order of their completion
RoundFindings == [i \in 1..Len(AnswersOf("round")) |-> AnswersOf("round")[i].value]

\* C29: findings are appended in iteration order and never removed or
\* altered: the list is the one the workflow started with followed by the
\* Findings of its rounds in their order, every earlier list is a prefix of
\* every later one (across re-entry too), and the decide and next-query calls
\* of an iteration are passed the list whose last element is that iteration's
\* Finding.
C29_FindingsAppendedInOrder ==
    /\ [](/\ Findings = Get(input0, "all_findings", <<>>) \o RoundFindings
          /\ orch.pc = "DecidingContinuation" =>
                 /\ orch.call.input.all_findings = Findings
                 /\ Findings[Len(Findings)] = hist[1]
                 /\ Findings[Len(Findings)].query = orch.current_query
          /\ orch.pc = "GeneratingNextQuery" =>
                 /\ orch.call.input.current_findings = Findings
                 /\ Findings[Len(Findings)] = hist[1]
                 /\ Findings[Len(Findings)].query = orch.current_query)
    /\ [][IsPrefix(Findings, Findings')]_vars

C29_Witness ==
    /\ orch.pc = "GeneratingNextQuery"
    /\ reentries = 1
    /\ Get(input0, "all_findings", <<>>) = <<PriorFinding>>
    /\ Len(Findings) = 3
    /\ Findings[2].query = "follow-up query"
    /\ Findings[3].query = "gnn expressivity"
    /\ Findings[3].summary = "No papers found for this query"

----------------------------------------------------------------------------
(* C30 *)

\* the names of the calls of the run under way, in their order
RunCallNames == [i \in 1..Len(InstanceCalls) |-> InstanceCalls[i].name]

\* C30: in one run of the instance continue_as_new is called at most once;
\* it is the last thing the run does; it comes only after the round, the
\* decide step and the next-query step of the iteration have completed; it
\* hands over the whole state; and a run that calls it makes no FinalResult
\* and calls no synthesizer, as a run that returns a FinalResult never calls it.
C30_ReentryAllOrNothing ==
    /\ Len(Named(InstanceCalls, "continue_as_new")) <= 1
    /\ Len(Named(InstanceCalls, "continue_as_new")) = 1 <=> orch.pc = "ContinuedAsNew"
    /\ orch.pc = "ContinuedAsNew" =>
           /\ RunCallNames[Len(RunCallNames)] = "continue_as_new"
           /\ SelectSeq(RunCallNames, LAMBDA n : n \notin {"call_llm", "search_arxiv_activity",
                                                            "analyze_papers_activity"})
                  = <<"paper_research_orchestrator", "decide_continuation_activity",
                      "identify_research_gaps_activity", "continue_as_new">>
           /\ Len(hist) = 3
           /\ sub.pc = "Idle"
           /\ orch.result = NoResult
           /\ DOMAIN orch.call.input =
                  {"topic", "max_iterations", "current_iteration", "all_findings", "current_query"}
           /\ orch.call.input.all_findings = orch.all_findings
           /\ orch.call.input.current_iteration = orch.current_iteration
           /\ ENABLED Reenter
           /\ ~ENABLED (StartInstance \/ StartRound \/ SearchCompletes \/ AnalyzeCompletes
                           \/ RoundCompletes \/ DecideCompletes \/ GapsCompletes
                           \/ SynthesizeCompletes \/ SearchFails \/ LlmFails)
    /\ orch.pc \in {"Synthesizing", "Done"} =>
           Named(InstanceCalls, "continue_as_new") = <<>>

C30_Witness ==
    /\ orch.pc = "ContinuedAsNew"
    /\ FreshStart
    /\ reentries = 1
    /\ Len(Named(calls, "continue_as_new")) = 2
    /\ Len(orch.call.input.all_findings) = 2

----------------------------------------------------------------------------
(* C31 *)

\* the query generator's output is a JSON list with at least one element
SuggestsQueries(response) ==
    response.isjson /\ response.val.t = "list" /\ response.val.l # <<>>

\* C31: when the query generator returns a non-empty list, the next-query
\* step yields exactly its first element, and that element, none of the
\* others, is the query of the next iteration's round and search; when the
\* generator returns an empty list, a value that is not a list, or text that
\* is not JSON, the step yields no query.
C31_FirstQueryOnly ==
    /\ orch.pc = "GeneratingNextQuery" =>
           \A response \in GapsResponses :
               LET r == identify_research_gaps_activity(orch.call.input, response)
               IN  /\ ~r.raised
                   /\ SuggestsQueries(response) =>
                          /\ r.value = PyStr(response.val.l[1])
                          /\ Truthy(r.value) =>
                                 after_gaps(orch, r.value).call =
                                     Call("continue_as_new",
                                          [topic |-> orch.topic,
                                           max_iterations |-> orch.max_iterations,
                                           current_iteration |-> orch.current_iteration,
                                           all_findings |-> orch.all_findings,
                                           current_query |-> response.val.l[1]])
                   /\ ~SuggestsQueries(response) => r.value = PyNone
    /\ orch.pc = "ContinuedAsNew" =>
           /\ Len(hist) = 3
           /\ hist[3] = PyStr(orch.call.input.current_query)
           /\ \E response \in GapsResponses :
                  SuggestsQueries(response) /\ response.val.l[1] = orch.call.input.current_query
    /\ reentries >= 1 =>
           /\ \E response \in GapsResponses :
                  SuggestsQueries(response) /\ response.val.l[1] = input.current_query
           /\ \A i \in 1..Len(InstanceCalls) :
                  /\ InstanceCalls[i].name = "paper_research_orchestrator" =>
                         InstanceCalls[i].input.query = input.current_query
                  /\ InstanceCalls[i].name = "search_arxiv_activity" =>
                         InstanceCalls[i].input = input.current_query

C31_Witness ==
    /\ reentries = 1
    /\ FreshStart
    /\ input.current_query = "graph pooling"
    /\ sub.pc = "Analyzing"
    /\ sub.query = "graph pooling"
    /\ Named(calls, "search_arxiv_activity") =
           <<Call("search_arxiv_activity", "graph neural networks"),
             Call("search_arxiv_activity", "graph pooling")>>

----------------------------------------------------------------------------
(* C32 *)

\* C32: a parse failure of the model output in the decide step (the output
\* is not a JSON object) or in the next-query step (it is not a JSON list)
\* raises nothing and leads the loop to Synthesizing in that same iteration:
\* decide yields false, next-query yields no query, and the loop's next call
\* is the synthesizer's, on the findings it has - no further round, no
\* re-entry, no second call of the step.
C32_ParseFailureSynthesizes ==
    /\ (orch.pc = "DecidingContinuation" /\ orch.current_iteration < orch.max_iterations) =>
           \A response \in DecideResponses :
               Unparseable(response, "dict") =>
                   LET r == decide_continuation_activity(orch.call.input, response)
                   IN  /\ ~r.raised
                       /\ r.value = PyBool(FALSE)
                       /\ after_decide(orch, r.value).pc = "Synthesizing"
                       /\ after_decide(orch, r.value).current_iteration = orch.current_iteration
                       /\ after_decide(orch, r.value).call =
                              Call("synthesize_research_activity",
                                   [topic |-> orch.topic, all_findings |-> orch.all_findings])
    /\ orch.pc = "GeneratingNextQuery" =>
           \A response \in GapsResponses :
               Unparseable(response, "list") =>
                   LET r == identify_research_gaps_activity(orch.call.input, response)
                   IN  /\ ~r.raised
                       /\ r.value = PyNone
                       /\ after_gaps(orch, r.value).pc = "Synthesizing"
                       /\ after_gaps(orch, r.value).current_iteration = orch.current_iteration
                       /\ after_gaps(orch, r.value).call =
                              Call("synthesize_research_activity",
                                   [topic |-> orch.topic, all_findings |-> orch.all_findings])

----------------------------------------------------------------------------
(* C33 *)

\* C33: for a search result of n >= 1 papers, the Finding's top_papers is
\* exactly the first min(n, 15) papers in their original order; it is never
\* longer than 15, and no paper beyond position 15 is shown to the model or
\* recorded in the Finding.
C33_TopPapersFirstFifteen ==
    (unit.activity = "analyze_papers_activity" /\ unit.done /\ ~unit.outcome.raised) =>
        LET papers == unit.input.papers
            n == Len(papers)
            top_papers == unit.outcome.value.top_papers
            shown == unit.prompt
        IN  /\ Len(top_papers) = (IF n < 15 THEN n ELSE 15)
            /\ Len(top_papers) <= 15
            /\ \A i \in 1..Len(top_papers) :
                   /\ top_papers[i].arxiv_id = papers[i].arxiv_id
                   /\ top_papers[i].title = papers[i].title
                   /\ top_papers[i].authors = papers[i].authors
                   /\ top_papers[i].abs_url = papers[i].abs_url
            /\ Len(shown) = Len(top_papers)
            /\ \A i \in 1..Len(shown) :
                   shown[i].n = i /\ shown[i].arxiv_id = papers[i].arxiv_id
            /\ \A j \in 16..n :
                   /\ \A i \in 1..Len(top_papers) : top_papers[i].arxiv_id # papers[j].arxiv_id
                   /\ \A i \in 1..Len(shown) : shown[i].arxiv_id # papers[j].arxiv_id

C33_Witness ==
    /\ unit.activity = "analyze_papers_activity"
    /\ unit.done
    /\ ~unit.outcome.raised
    /\ Len(unit.input.papers) = 17
    /\ unit.input.papers[1].arxiv_id = "2301.17"
    /\ Len(unit.outcome.value.top_papers) = 15
    /\ unit.outcome.value.top_papers[15].arxiv_id = "2301.3"
    /\ unit.outcome.value.relevance_score = 7

----------------------------------------------------------------------------
(* C34 *)

RECURSIVE SumSeq(_)
SumSeq(q) == IF q = <<>> THEN 0 ELSE Head(q) + SumSeq(Tail(q))

\* C34: a failing fetch is retried a bounded number of times within one
\* round: the scheduler executes the search activity at most 3 times, each
\* execution issues at most 3 outbound requests, so the round issues at most
\* 9; and when the last attempt has failed the search call raises in the
\* round, which ends without a Finding.
C34_FetchRetriesBounded ==
    unit.activity = "search_arxiv_activity" =>
        /\ unit.attempts <= 3
        /\ Len(unit.requests) = unit.attempts
        /\ \A i \in 1..Len(unit.requests) : unit.requests[i] <= 3
        /\ SumSeq(unit.requests) <= 9
        /\ unit.pc = "Completed" => ~unit.outcome.raised
        /\ unit.pc = "TaskFailed" =>
               LET round == paper_research_orchestrator(
                                [main_topic |-> input.topic, query |-> unit.input])
               IN  /\ unit.outcome.raised
                   /\ ~ENABLED ExecuteSearch
                   /\ round.call = Call("search_arxiv_activity", unit.input)
                   /\ Failed(round).pc = "Failed"
                   /\ Failed(round).result = NoResult

C34_Witness ==
    /\ unit.activity = "search_arxiv_activity"
    /\ unit.pc = "TaskFailed"
    /\ unit.input = "gnn expressivity"
    /\ unit.attempts = 3
    /\ unit.requests = <<3, 3, 3>>
    /\ unit.outcome = FetchRaised(ArxivAPIError("HTTP error", 503))

----------------------------------------------------------------------------
(* C35 *)

\* the link is pdf-titled or pdf-typed
IsPdfLink(link) == link.title = "pdf" \/ link.type = "application/pdf"

\* C35: for an entry with several links, abs_url is the first link whose
\* relation is "alternate" and which is not a pdf link; when the entry has
\* no such link, abs_url is https://arxiv.org/abs/<id>; pdf_url is a link
\* that is pdf-titled or pdf-typed (and empty when there is none).
C35_FirstAlternateLink ==
    (unit.activity = "_parse_entry" /\ unit.done) =>
        LET links == unit.entry.links
            alternates == SelectSeq(links, LAMBDA l : l.rel = "alternate" /\ ~IsPdfLink(l))
            pdfs == SelectSeq(links, IsPdfLink)
        IN  /\ alternates # <<>> => unit.paper.abs_url = Head(alternates).href
            /\ alternates = <<>> =>
                   unit.paper.abs_url = "https://arxiv.org/abs/2301.12345v1"
            /\ pdfs # <<>> => \E i \in 1..Len(pdfs) : unit.paper.pdf_url = pdfs[i].href
            /\ pdfs = <<>> => unit.paper.pdf_url = ""

----------------------------------------------------------------------------
(* C36 *)

RECURSIVE PapersInOrder(_)
\* every paper of every finding, in finding order
PapersInOrder(all_findings) ==
    IF all_findings = <<>>
    THEN <<>>
    ELSE (IF "top_papers" \in DOMAIN Head(all_findings)
          THEN Head(all_findings).top_papers
          ELSE <<>>) \o PapersInOrder(Tail(all_findings))

\* the position of the first paper with this id
FirstOccurrence(papers, arxiv_id) ==
    CHOOSE i \in 1..Len(papers) :
        /\ papers[i].arxiv_id = arxiv_id
        /\ \A j \in 1..(i - 1) : papers[j].arxiv_id # arxiv_id

\* C36: the citations the synthesizer collects over all findings are
\* deduplicated by id: each distinct non-empty arxiv_id has exactly one
\* citation, that of its first occurrence in finding order; papers with an
\* empty id have none; and the citation numbers are 1..k in order of first
\* occurrence, k being the number of distinct non-empty ids.
C36_CitationsDeduplicatedById ==
    (unit.activity = "synthesize_research_activity" /\ unit.done) =>
        LET papers == PapersInOrder(unit.input.all_findings)
            ids == {papers[i].arxiv_id : i \in 1..Len(papers)} \ {""}
            cites == unit.prompt
            k == Cardinality(ids)
        IN  /\ Len(cites) = k
            /\ {cites[c].arxiv_id : c \in 1..Len(cites)} = ids
            /\ \A c \in 1..Len(cites) :
                   /\ cites[c].id = c
                   /\ cites[c].arxiv_id # ""
                   /\ cites[c].title = papers[FirstOccurrence(papers, cites[c].arxiv_id)].title
                   /\ \A d \in 1..(c - 1) :
                          FirstOccurrence(papers, cites[d].arxiv_id)
                              < FirstOccurrence(papers, cites[c].arxiv_id)

C36_Witness ==
    /\ unit.activity = "synthesize_research_activity"
    /\ unit.done
    /\ Len(unit.input.all_findings) = 2
    /\ Len(PapersInOrder(unit.input.all_findings)) = 4
    /\ PapersInOrder(unit.input.all_findings)[1].arxiv_id = ""
    /\ PapersInOrder(unit.input.all_findings)[2].arxiv_id = "2301.00002v1"
    /\ PapersInOrder(unit.input.all_findings)[3].title = "Paper one, revised"
    /\ PapersInOrder(unit.input.all_findings)[4].title = "Paper one"
    /\ Len(unit.prompt) = 2
    /\ unit.prompt[1].id = 1 /\ unit.prompt[1].arxiv_id = "2301.00002v1"
    /\ unit.prompt[2].id = 2 /\ unit.prompt[2].title = "Paper one, revised"

----------------------------------------------------------------------------
(* C37 *)

\* the loop's findings list after a first round that ran the analysis and
\* returned this Finding (paper_research_orchestrator line 89, then
\* arxiv_research_orchestrator line 174)
StoredFindings(topic, finding) ==
    LET loop == arxiv_research_orchestrator([topic |-> topic])
        round == after_analyze(paper_research_orchestrator(loop.call.input), finding)
    IN  after_round(loop, round.result).all_findings

\* C37: every Finding stored in the loop's findings list has an integer
\* relevance_score in the range 0..10, whatever the extractor returns.
C37_RelevanceScoreInRange ==
    (unit.activity = "analyze_papers_activity" /\ unit.done /\ ~unit.outcome.raised) =>
        LET all_findings == StoredFindings(unit.input.topic, unit.outcome.value)
        IN  \A i \in 1..Len(all_findings) :
                /\ "relevance_score" \in DOMAIN all_findings[i]
                /\ all_findings[i].relevance_score \in 0..10

----------------------------------------------------------------------------
(* C38 *)

\* the rounds a workflow may still perform when it is started
RoundBudget == Max(0, WorkflowMax - Get(input0, "current_iteration", 0))

\* the rounds started so far
RoundsStarted == Len(Named(calls, "paper_research_orchestrator"))

\* C38 as stated: every workflow started with max_iterations >= 0 and
\* current_iteration >= 0 eventually reaches Done or a failed state; it
\* performs at most max(0, max_iterations - current_iteration) rounds and at
\* most that many minus one re-entries.
C38_TerminatesRoundsMinusOne ==
    /\ <>(orch.pc \in {"Done", "Failed"})
    /\ [](RoundsStarted <= RoundBudget /\ reentries <= RoundBudget - 1)

\* C38, amended: every workflow started with max_iterations >= 0 and
\* current_iteration >= 0 eventually reaches Done or a failed state; it
\* performs at most N = max(0, max_iterations - current_iteration) rounds and
\* at most max(0, N - 1) re-entries (none when it performs no round).
C38_TerminatesWithinBudget ==
    /\ <>(orch.pc \in {"Done", "Failed"})
    /\ [](RoundsStarted <= RoundBudget /\ reentries <= Max(0, RoundBudget - 1))

C38_Witness ==
    /\ orch.pc = "Done"
    /\ FreshStart
    /\ WorkflowMax = 3
    /\ RoundsStarted = 3
    /\ reentries = 2
    /\ orch.result.iterations = 3

----------------------------------------------------------------------------
(* C39 *)

\* C39: in a workflow started with a non-blank topic, the query passed to
\* every research round, and by it to the fetcher, is neither empty nor
\* whitespace only, whatever the query generator returns; no round fails
\* the fetcher's check of the query.
C39_RoundQueriesNonBlank ==
    Strip(input0.topic) # "" =>
        \A i \in 1..Len(calls) :
            /\ calls[i].name = "paper_research_orchestrator" =>
                   Strip(calls[i].input.query) # ""
            /\ calls[i].name = "search_arxiv_activity" =>
                   /\ validate([ValidArgs EXCEPT !.query = calls[i].input]) = NoError
                   /\ \A remote \in PaperLists :
                          ~search_arxiv_activity(calls[i].input, remote).raised

----------------------------------------------------------------------------
(* C40 *)

\* C40: every orchestration name scheduled by the REST client or by the CLI
\* is the name of an orchestrator the worker registers, and so is every
\* orchestration or activity name the scheduled orchestrator calls first, so
\* a started workflow can be picked up and executed.
C40_ScheduledNamesRegistered ==
    (unit.activity = "control surface" /\ unit.state # NoInstance) =>
        /\ unit.state.name \in RegisteredOrchestrators
        /\ LET loop == arxiv_research_orchestrator(unit.state.serialized_input)
           IN  /\ loop.call.name \in RegisteredOrchestrators \cup RegisteredActivities
               /\ loop.call.name = "paper_research_orchestrator" =>
                      paper_research_orchestrator(loop.call.input).call.name
                          \in RegisteredActivities

====
